---------------------------- MODULE Spec2Model ----------------------------
(***************************************************************************)
(* The semantic product retrieval engine of the repository: the embedding  *)
(* index builder and loader (EmbeddingManager.create_embeddings_from_db,   *)
(* _load_or_create_index) and the ranking / filtering pipeline             *)
(* (search_products, search_by_filters).                                   *)
(*                                                                         *)
(* Python strings are tuples of one-character strings, so that lower(),    *)
(* strip() and the substring test `a in b` are computed as Python computes *)
(* them.  Similarity scores and thresholds are integers in thousandths     *)
(* (0.45 is 450).  A vector is named by the product whose document text it *)
(* embeds.  Prices are in thousands of pesos.                              *)
(***************************************************************************)
EXTENDS Integers, Sequences, FiniteSets, TLC

VARIABLES
  index,             \* self.index: None, or the rows of the FAISS index
  product_metadata,  \* self.product_metadata
  index_file,        \* data/embeddings/product_index.faiss
  metadata_file,     \* data/embeddings/product_metadata.json
  embeddings_file,   \* data/embeddings/product_embeddings.pkl
  client,            \* TechChatbot.client: "None" without an API key, else "Groq"
  conversation_history,  \* TechChatbot.conversation_history
  call,              \* the last operation and its inputs
  ret,               \* what the last operation returned
  _chatbot_instances,  \* views._chatbot_instances: session id -> chatbot
  chatbots,          \* the TechChatbot objects constructed by the views, in order
  requests,          \* the requests being served: their locals and position
  GROQ_API_KEY       \* whether os.environ holds the key

vars ==
  <<index, product_metadata, index_file, metadata_file, embeddings_file, client,
    conversation_history, call, ret, _chatbot_instances, chatbots, requests, GROQ_API_KEY>>

state == <<index, product_metadata, index_file, metadata_file, embeddings_file>>

\* the state of the web process
server == <<_chatbot_instances, chatbots, requests, GROQ_API_KEY>>

\* the session ids requests carry
Sessions == {"s1", "s2"}

\* _chatbot_instances has no entry for a session; a local not yet bound
Absent == 0

\* no request has been served: _chatbot_instances = {}
NoServer ==
  /\ _chatbot_instances = [s \in Sessions |-> Absent]
  /\ chatbots = << >>
  /\ requests = << >>
  /\ GROQ_API_KEY = FALSE

\* the EmbeddingManager is used on its own: no chatbot has been constructed
NoChatbot == client = "None" /\ conversation_history = << >> /\ NoServer

-----------------------------------------------------------------------------
(* Bounds *)

\* the longest product list the store returns
MaxProducts == 4

\* the longest product list a build of the index lifecycle is given
MaxBuildProducts == 1

\* create_embeddings_from_db(batch_size=50)
DefaultBatchSize == 50

\* the batch sizes a build is called with: one text per batch, and the default
BatchSizes == {1, DefaultBatchSize}

-----------------------------------------------------------------------------
(* Python strings *)

Range(s) == {s[i] : i \in 1..Len(s)}

UpperChars == <<"A", "B", "C", "D", "E", "F", "G", "H", "I", "J", "K", "L", "M",
                "N", "O", "P", "Q", "R", "S", "T", "U", "V", "W", "X", "Y", "Z",
                "Á", "É", "Í", "Ó", "Ú", "Ñ">>

LowerChars == <<"a", "b", "c", "d", "e", "f", "g", "h", "i", "j", "k", "l", "m",
                "n", "o", "p", "q", "r", "s", "t", "u", "v", "w", "x", "y", "z",
                "á", "é", "í", "ó", "ú", "ñ">>

LowerMap ==
  [c \in Range(UpperChars) |->
     LowerChars[CHOOSE i \in 1..Len(UpperChars) : UpperChars[i] = c]]

LowerChar(c) == IF c \in DOMAIN LowerMap THEN LowerMap[c] ELSE c

\* str.lower()
Lower(s) == [i \in 1..Len(s) |-> LowerChar(s[i])]

\* str.strip()
RECURSIVE Strip(_)
Strip(s) ==
  IF s = << >> THEN s
  ELSE IF Head(s) = " " THEN Strip(Tail(s))
  ELSE IF s[Len(s)] = " " THEN Strip(SubSeq(s, 1, Len(s) - 1))
  ELSE s

\* sub in s
Contains(sub, s) ==
  \E i \in 0..(Len(s) - Len(sub)) : SubSeq(s, i + 1, i + Len(sub)) = sub

\* any(word in s for word in words)
ContainsAny(words, s) == \E w \in words : Contains(w, s)

\* dict.get(key, default) on a record
Get(d, key, default) == IF key \in DOMAIN d THEN d[key] ELSE default

Min(a, b) == IF a <= b THEN a ELSE b

Max(a, b) == IF a >= b THEN a ELSE b

Reverse(s) == [i \in 1..Len(s) |-> s[Len(s) + 1 - i]]

-----------------------------------------------------------------------------
(* Category canonicalization *)

category_map ==
  <<
    << <<"c", "e", "l", "u", "l", "a", "r", "e", "s", "/", "s", "m", "a", "r", "t", "p", "h", "o", "n", "e", "s">>,
       <<"S", "m", "a", "r", "t", "p", "h", "o", "n", "e", "s">> >>,
    << <<"s", "m", "a", "r", "t", "p", "h", "o", "n", "e", "s">>,
       <<"S", "m", "a", "r", "t", "p", "h", "o", "n", "e", "s">> >>,
    << <<"c", "e", "l", "u", "l", "a", "r", "e", "s">>,
       <<"S", "m", "a", "r", "t", "p", "h", "o", "n", "e", "s">> >>,
    << <<"c", "o", "m", "p", "u", "t", "a", "d", "o", "r", "e", "s", "-", "t", "a", "b", "l", "e", "t", "/", "c", "o", "m", "p", "u", "t", "a", "d", "o", "r", "e", "s", "-", "p", "o", "r", "t", "a", "t", "i", "l", "e", "s">>,
       <<"P", "o", "r", "t", "á", "t", "i", "l", "e", "s">> >>,
    << <<"p", "o", "r", "t", "a", "t", "i", "l", "e", "s">>,
       <<"P", "o", "r", "t", "á", "t", "i", "l", "e", "s">> >>,
    << <<"l", "a", "p", "t", "o", "p", "s">>,
       <<"P", "o", "r", "t", "á", "t", "i", "l", "e", "s">> >>,
    << <<"c", "o", "m", "p", "u", "t", "a", "d", "o", "r", "e", "s", "-", "t", "a", "b", "l", "e", "t", "/", "c", "o", "m", "p", "u", "t", "a", "d", "o", "r", "e", "s", "-", "e", "s", "c", "r", "i", "t", "o", "r", "i", "o", "-", "a", "l", "l", "-", "i", "n", "-", "o", "n", "e">>,
       <<"C", "o", "m", "p", "u", "t", "a", "d", "o", "r", "e", "s", " ", "d", "e", " ", "E", "s", "c", "r", "i", "t", "o", "r", "i", "o">> >>,
    << <<"c", "o", "m", "p", "u", "t", "a", "d", "o", "r", "e", "s", "_", "e", "s", "c", "r", "i", "t", "o", "r", "i", "o">>,
       <<"C", "o", "m", "p", "u", "t", "a", "d", "o", "r", "e", "s", " ", "d", "e", " ", "E", "s", "c", "r", "i", "t", "o", "r", "i", "o">> >>,
    << <<"d", "e", "s", "k", "t", "o", "p", "s">>,
       <<"C", "o", "m", "p", "u", "t", "a", "d", "o", "r", "e", "s", " ", "d", "e", " ", "E", "s", "c", "r", "i", "t", "o", "r", "i", "o">> >>,
    << <<"c", "o", "m", "p", "u", "t", "a", "d", "o", "r", "e", "s", "-", "t", "a", "b", "l", "e", "t", "/", "t", "a", "b", "l", "e", "t", "a", "s", "-", "i", "p", "a", "d", "s">>,
       <<"T", "a", "b", "l", "e", "t", "s">> >>,
    << <<"t", "a", "b", "l", "e", "t", "a", "s">>,
       <<"T", "a", "b", "l", "e", "t", "s">> >>,
    << <<"t", "a", "b", "l", "e", "t", "s">>,
       <<"T", "a", "b", "l", "e", "t", "s">> >>,
    << <<"a", "c", "c", "e", "s", "o", "r", "i", "o", "s", "-", "e", "l", "e", "c", "t", "r", "o", "n", "i", "c", "a">>,
       <<"A", "c", "c", "e", "s", "o", "r", "i", "o", "s", " ", "E", "l", "e", "c", "t", "r", "ó", "n", "i", "c", "o", "s">> >>,
    << <<"a", "c", "c", "e", "s", "o", "r", "i", "o", "s", "_", "e", "l", "e", "c", "t", "r", "o", "n", "i", "c", "o", "s">>,
       <<"A", "c", "c", "e", "s", "o", "r", "i", "o", "s", " ", "E", "l", "e", "c", "t", "r", "ó", "n", "i", "c", "o", "s">> >>,
    << <<"c", "o", "m", "p", "u", "t", "a", "d", "o", "r", "e", "s", "-", "t", "a", "b", "l", "e", "t", "/", "m", "o", "n", "i", "t", "o", "r", "e", "s">>,
       <<"M", "o", "n", "i", "t", "o", "r", "e", "s">> >>,
    << <<"m", "o", "n", "i", "t", "o", "r", "e", "s">>,
       <<"M", "o", "n", "i", "t", "o", "r", "e", "s">> >>,
    << <<"c", "o", "m", "p", "u", "t", "a", "d", "o", "r", "e", "s", "-", "t", "a", "b", "l", "e", "t", "/", "p", "r", "o", "y", "e", "c", "t", "o", "r", "e", "s", "-", "v", "i", "d", "e", "o", "b", "e", "a", "m">>,
       <<"P", "r", "o", "y", "e", "c", "t", "o", "r", "e", "s">> >>,
    << <<"p", "r", "o", "y", "e", "c", "t", "o", "r", "e", "s">>,
       <<"P", "r", "o", "y", "e", "c", "t", "o", "r", "e", "s">> >>,
    << <<"t", "v", "/", "s", "m", "a", "r", "t", "-", "t", "v">>,
       <<"T", "e", "l", "e", "v", "i", "s", "o", "r", "e", "s">> >>,
    << <<"t", "e", "l", "e", "v", "i", "s", "o", "r", "e", "s">>,
       <<"T", "e", "l", "e", "v", "i", "s", "o", "r", "e", "s">> >>,
    << <<"t", "v", "s">>,
       <<"T", "e", "l", "e", "v", "i", "s", "o", "r", "e", "s">> >>,
    << <<"c", "o", "m", "p", "l", "e", "m", "e", "n", "t", "o", "s", "-", "t", "v">>,
       <<"C", "o", "m", "p", "l", "e", "m", "e", "n", "t", "o", "s", " ", "T", "V">> >>,
    << <<"c", "o", "m", "p", "l", "e", "m", "e", "n", "t", "o", "s", "_", "t", "v">>,
       <<"C", "o", "m", "p", "l", "e", "m", "e", "n", "t", "o", "s", " ", "T", "V">> >>,
    << <<"a", "c", "c", "e", "s", "o", "r", "i", "o", "s", "-", "e", "l", "e", "c", "t", "r", "o", "n", "i", "c", "a", "/", "a", "c", "c", "e", "s", "o", "r", "i", "o", "s", "-", "t", "v", "-", "v", "i", "d", "e", "o">>,
       <<"A", "c", "c", "e", "s", "o", "r", "i", "o", "s", " ", "T", "V">> >>,
    << <<"v", "i", "d", "e", "o", "j", "u", "e", "g", "o", "s", "/", "c", "o", "n", "s", "o", "l", "a", "s">>,
       <<"C", "o", "n", "s", "o", "l", "a", "s">> >>,
    << <<"c", "o", "n", "s", "o", "l", "a", "s">>,
       <<"C", "o", "n", "s", "o", "l", "a", "s">> >>,
    << <<"v", "i", "d", "e", "o", "j", "u", "e", "g", "o", "s", "/", "a", "c", "c", "e", "s", "o", "r", "i", "o", "s", "-", "v", "i", "d", "e", "o", "j", "u", "e", "g", "o", "s">>,
       <<"A", "c", "c", "e", "s", "o", "r", "i", "o", "s", " ", "V", "i", "d", "e", "o", "j", "u", "e", "g", "o", "s">> >>,
    << <<"a", "u", "d", "i", "o", " ", "/", " ", "a", "u", "d", "i", "f", "o", "n", "o", "s">>,
       <<"A", "u", "d", "í", "f", "o", "n", "o", "s">> >>,
    << <<"a", "u", "d", "i", "f", "o", "n", "o", "s">>,
       <<"A", "u", "d", "í", "f", "o", "n", "o", "s">> >>,
    << <<"a", "u", "d", "í", "f", "o", "n", "o", "s">>,
       <<"A", "u", "d", "í", "f", "o", "n", "o", "s">> >>,
    << <<"h", "e", "a", "d", "p", "h", "o", "n", "e", "s">>,
       <<"A", "u", "d", "í", "f", "o", "n", "o", "s">> >>,
    << <<"c", "a", "s", "a", "-", "i", "n", "t", "e", "l", "i", "g", "e", "n", "t", "e", "-", "d", "o", "m", "o", "t", "i", "c", "a">>,
       <<"C", "a", "s", "a", " ", "I", "n", "t", "e", "l", "i", "g", "e", "n", "t", "e">> >>,
    << <<"c", "a", "s", "a", "_", "i", "n", "t", "e", "l", "i", "g", "e", "n", "t", "e">>,
       <<"C", "a", "s", "a", " ", "I", "n", "t", "e", "l", "i", "g", "e", "n", "t", "e">> >>,
    << <<"s", "m", "a", "r", "t", " ", "h", "o", "m", "e">>,
       <<"C", "a", "s", "a", " ", "I", "n", "t", "e", "l", "i", "g", "e", "n", "t", "e">> >>
  >>

\* self.category_map.get(key, default)
\* mutant of CategoryMapGet: the value of the entry after the key's
CategoryMapGetNextEntry(key, default) ==
  IF \E i \in 1..Len(category_map) : category_map[i][1] = key
  THEN category_map[((CHOOSE i \in 1..Len(category_map) : category_map[i][1] = key)
                       % Len(category_map)) + 1][2]
  ELSE default

CategoryMapGet(key, default) ==
  IF \E i \in 1..Len(category_map) : category_map[i][1] = key
  THEN category_map[CHOOSE i \in 1..Len(category_map) : category_map[i][1] = key][2]
  ELSE default

_normalize_category(category) ==
  IF category = << >> THEN <<"S", "i", "n", " ", "c", "a", "t", "e", "g", "o", "r", "í", "a">>
  ELSE CategoryMapGet(Strip(Lower(category)), category)

main_categories ==
  { <<"s", "m", "a", "r", "t", "p", "h", "o", "n", "e", "s">>, <<"p", "o", "r", "t", "á", "t", "i", "l", "e", "s">>, <<"c", "o", "m", "p", "u", "t", "a", "d", "o", "r", "e", "s", " ", "d", "e", " ", "e", "s", "c", "r", "i", "t", "o", "r", "i", "o">>, <<"t", "a", "b", "l", "e", "t", "s">>,
    <<"t", "e", "l", "e", "v", "i", "s", "o", "r", "e", "s">>, <<"m", "o", "n", "i", "t", "o", "r", "e", "s">>, <<"p", "r", "o", "y", "e", "c", "t", "o", "r", "e", "s">>, <<"c", "o", "n", "s", "o", "l", "a", "s">>, <<"a", "u", "d", "í", "f", "o", "n", "o", "s">> }

_is_main_product_category(category) == Lower(category) \in main_categories

-----------------------------------------------------------------------------
(* The product store: documents as save_products writes them (every field  *)
(* of ProductBase present and of its declared type).                       *)

Cable ==
  [_id |-> 1, name |-> <<"C", "a", "b", "l", "e">>, brand |-> <<"G", "e", "n">>,
   category |-> <<"a", "c", "c", "e", "s", "o", "r", "i", "o", "s", "-", "e", "l", "e", "c", "t", "r", "o", "n", "i", "c", "a">>,
   discount_price_num |-> 20, original_price_num |-> 20, discount_percent |-> "0%"]

Sleeve ==
  [_id |-> 2, name |-> <<"V", "I", "C", "T", "U", "S">>, brand |-> <<"h", "p">>,
   category |-> <<"F", "u", "n", "d", "a", "s">>,
   discount_price_num |-> 90, original_price_num |-> 100, discount_percent |-> "10%"]

Mouse ==
  [_id |-> 3, name |-> <<"M", "o", "u", "s", "e">>, brand |-> <<"G", "e", "n">>,
   category |-> <<"a", "c", "c", "e", "s", "o", "r", "i", "o", "s", "_", "e", "l", "e", "c", "t", "r", "o", "n", "i", "c", "o", "s">>,
   discount_price_num |-> 50, original_price_num |-> 50, discount_percent |-> "Sin descuento"]

Laptop ==
  [_id |-> 4, name |-> <<"V", "i", "c", "t", "u", "s">>, brand |-> <<"H", "P">>,
   category |-> <<"P", "o", "r", "t", "a", "t", "i", "l", "e", "s">>,
   discount_price_num |-> 3000, original_price_num |-> 3500, discount_percent |-> "15%"]

Desktop ==
  [_id |-> 5, name |-> <<"A", "I", "O">>, brand |-> <<"H", "P">>,
   category |-> <<"c", "o", "m", "p", "u", "t", "a", "d", "o", "r", "e", "s", "_", "e", "s", "c", "r", "i", "t", "o", "r", "i", "o">>,
   discount_price_num |-> 2500, original_price_num |-> 2500, discount_percent |-> "0"]

Shelf == <<Cable, Sleeve, Mouse, Laptop, Desktop>>

Prefixes(s) == {SubSeq(s, 1, n) : n \in 0..Min(MaxProducts, Len(s))}

\* what mongo.get_all_products() may return: the shelf filled from either end
Catalogs == Prefixes(Shelf) \cup Prefixes(Reverse(Shelf))

\* the product lists the builds of the index lifecycle are given
BuildCatalogs == {c \in Catalogs : Len(c) <= MaxBuildProducts}

-----------------------------------------------------------------------------
(* Index entries *)

\* the metadata entry create_embeddings_from_db keeps for a product
MetadataEntry(product) ==
  [id |-> Get(product, "_id", 0),
   name |-> Get(product, "name", << >>),
   brand |-> Get(product, "brand", << >>),
   category |-> _normalize_category(Get(product, "category", << >>)),
   price |-> Get(product, "discount_price_num", Get(product, "original_price_num", 0)),
   discount_percent |-> Get(product, "discount_percent", "0%"),
   is_main_product |->
     _is_main_product_category(_normalize_category(Get(product, "category", << >>)))]

\* MetadataEntry of the shelf's products, computed once
MetadataOfShelf == [i \in 1..Len(Shelf) |-> MetadataEntry(Shelf[i])]

Metadata(product) ==
  IF \E i \in 1..Len(Shelf) : Shelf[i] = product
  THEN MetadataOfShelf[CHOOSE i \in 1..Len(Shelf) : Shelf[i] = product]
  ELSE MetadataEntry(product)

\* self.model.encode(batch): one vector per text, in the order of the batch;
\* the vector of a product's document text is named by that product
Encode(batch) == [i \in 1..Len(batch) |-> batch[i]._id]

\* the batch loop and np.vstack
RECURSIVE EncodeInBatches(_, _)
EncodeInBatches(products, batch_size) ==
  IF products = << >> THEN << >>
  ELSE LET n == Min(batch_size, Len(products))
       IN  Encode(SubSeq(products, 1, n))
             \o EncodeInBatches(SubSeq(products, n + 1, Len(products)), batch_size)

None == [isNone |-> TRUE, vectors |-> << >>]

\* faiss.IndexFlatIP(dimension) followed by index.add(embeddings)
IndexFlatIP(embeddings) == [isNone |-> FALSE, vectors |-> embeddings]

ntotal(idx) == Len(idx.vectors)

-----------------------------------------------------------------------------
(* Persisted files *)

Missing == [state |-> "missing", data |-> << >>]

Written(data) == [state |-> "ok", data |-> data]

\* a file after a write that raised: not opened ("untouched"), or opened and
\* left truncated ("empty") or cut short ("corrupt")
FileAfterFailedWrite(file, effect) ==
  IF effect = "untouched" THEN file ELSE [state |-> effect, data |-> << >>]

\* where a build can raise
BuildSteps ==
  {"fetch", "encode", "construct", "add", "write_index", "write_metadata", "write_embeddings"}

\* the code tells an empty index file from a cut one (os.path.getsize); it
\* reads the other two files whole or not at all
BuildFaults ==
  {[at |-> "none", effect |-> "untouched"]}
    \cup {[at |-> s, effect |-> "untouched"] : s \in BuildSteps}
    \cup {[at |-> "write_index", effect |-> "empty"]}
    \cup {[at |-> s, effect |-> "corrupt"] :
            s \in {"write_index", "write_metadata", "write_embeddings"}}

-----------------------------------------------------------------------------
(* create_embeddings_from_db *)

\* mutant of BuildTryBlock: the fetch moved out of the try block
BuildTryBlockAfterFetch == BuildSteps \ {"fetch"}

\* the steps inside the try block (lines 187-265); what raises there is caught
BuildTryBlock == BuildSteps

\* the state after the call from a given in-memory state, the value returned,
\* and fired: the fault the call ran into ("none" when it returned before it)
BuildOutcomeFrom(idx, old_metadata, products, batch_size, fault) ==
  LET before == [index |-> idx, product_metadata |-> old_metadata,
                 index_file |-> index_file, metadata_file |-> metadata_file,
                 embeddings_file |-> embeddings_file, value |-> FALSE,
                 fired |-> fault.at]
      metadata == [i \in 1..Len(products) |-> Metadata(products[i])]
      embeddings == EncodeInBatches(products, batch_size)
      new_index == IndexFlatIP(embeddings)
  IN  IF fault.at = "fetch" THEN before
      ELSE IF products = << >> THEN [before EXCEPT !.fired = "none"]
      ELSE IF fault.at \in {"encode", "construct"} THEN before
      ELSE IF fault.at = "add"
        THEN [before EXCEPT !.index = IndexFlatIP(<< >>)]
      ELSE IF fault.at = "write_index"
        THEN [before EXCEPT !.index = new_index,
                            !.index_file = FileAfterFailedWrite(index_file, fault.effect)]
      ELSE IF fault.at = "write_metadata"
        THEN [before EXCEPT !.index = new_index,
                            !.index_file = Written(new_index.vectors),
                            !.metadata_file = FileAfterFailedWrite(metadata_file, fault.effect)]
      ELSE IF fault.at = "write_embeddings"
        THEN [before EXCEPT !.index = new_index,
                            !.index_file = Written(new_index.vectors),
                            !.metadata_file = Written(metadata),
                            !.embeddings_file = FileAfterFailedWrite(embeddings_file, fault.effect)]
      ELSE [index |-> new_index, product_metadata |-> metadata,
            index_file |-> Written(new_index.vectors),
            metadata_file |-> Written(metadata),
            embeddings_file |-> Written(embeddings), value |-> TRUE,
            fired |-> "none"]

\* mutant of BuildOutcome: the build drops the loaded index before it starts
BuildOutcomeClearsFirst(products, batch_size, fault) ==
  BuildOutcomeFrom(None, << >>, products, batch_size, fault)

BuildOutcome(products, batch_size, fault) ==
  BuildOutcomeFrom(index, product_metadata, products, batch_size, fault)

create_embeddings_from_db(products, batch_size, fault) ==
  \E after \in {BuildOutcome(products, batch_size, fault)} :
      /\ index' = after.index
      /\ product_metadata' = after.product_metadata
      /\ index_file' = after.index_file
      /\ metadata_file' = after.metadata_file
      /\ embeddings_file' = after.embeddings_file
      /\ UNCHANGED <<client, server, conversation_history>>
      /\ call' = [op |-> "create_embeddings_from_db", fault |-> after.fired,
                  empty |-> (products = << >>)]
      /\ ret' = [raised |-> after.fired \notin (BuildTryBlock \cup {"none"}),
                 value |-> after.value]

-----------------------------------------------------------------------------
(* _load_or_create_index, and __init__ which calls it on a new object *)

exists(file) == file.state # "missing"

nonempty(file) == file.state \in {"corrupt", "ok"}

\* faiss.read_index and json.load raise on a file that is not what was written
readable(file) == file.state = "ok"

LoadFaults == {"none", "read_index", "read_metadata"}

LoadOutcome(idx, metadata, fault) ==
  IF exists(index_file) /\ exists(metadata_file) /\ nonempty(index_file)
  THEN IF ~readable(index_file) \/ fault = "read_index"
         THEN [index |-> None, product_metadata |-> << >>, fired |-> "read_index"]
       ELSE IF ~readable(metadata_file) \/ fault = "read_metadata"
         THEN [index |-> None, product_metadata |-> << >>, fired |-> "read_metadata"]
       ELSE [index |-> IndexFlatIP(index_file.data),
             product_metadata |-> metadata_file.data, fired |-> "none"]
  ELSE [index |-> idx, product_metadata |-> metadata, fired |-> "none"]

_load_or_create_index(fault) ==
  \E after \in {LoadOutcome(index, product_metadata, fault)} :
      /\ index' = after.index
      /\ product_metadata' = after.product_metadata
      /\ UNCHANGED <<index_file, metadata_file, embeddings_file, client, server, conversation_history>>
      /\ call' = [op |-> "_load_or_create_index", fault |-> after.fired, empty |-> FALSE]
      /\ ret' = [raised |-> FALSE, value |-> FALSE]

__init__(fault) ==
  \E after \in {LoadOutcome(None, << >>, fault)} :
      /\ index' = after.index
      /\ product_metadata' = after.product_metadata
      /\ UNCHANGED <<index_file, metadata_file, embeddings_file, client, server, conversation_history>>
      /\ call' = [op |-> "__init__", fault |-> after.fired, empty |-> FALSE]
      /\ ret' = [raised |-> FALSE, value |-> FALSE]

-----------------------------------------------------------------------------
(* The index lifecycle: a fresh deployment, then builds, loads, restarts.  *)

Init ==
  /\ index = None
  /\ product_metadata = << >>
  /\ index_file = Missing
  /\ metadata_file = Missing
  /\ embeddings_file = Missing
  /\ NoChatbot
  /\ call = [op |-> "__init__", fault |-> "none", empty |-> FALSE]
  /\ ret = [raised |-> FALSE, value |-> FALSE]

Build ==
  \E products \in BuildCatalogs, batch_size \in BatchSizes, fault \in BuildFaults :
    create_embeddings_from_db(products, batch_size, fault)

Load == \E fault \in LoadFaults : _load_or_create_index(fault)

Restart == \E fault \in LoadFaults : __init__(fault)

Next == Build \/ Load \/ Restart

Spec == Init /\ [][Next]_vars

-----------------------------------------------------------------------------
(* search_products *)

\* the largest top_k a search is called with
MaxTopK == 2

\* the raw similarity scores range over this many levels
NumScoreLevels == 2

\* raw inner-product scores, in thousandths: 0.4, 0.6, ...
Scores == {400 + 200 * n : n \in 0..(NumScoreLevels - 1)}

\* the thresholds searches are called with, in thousandths
Thresholds == {300, 500, 700}

TopKs == 1..MaxTopK

Queries == { <<"L", "a", "p", "t", "o", "p">>, <<"h", "p">> }

portable_words == { <<"p", "o", "r", "t", "a", "t", "i", "l">>, <<"p", "o", "r", "t", "á", "t", "i", "l">>, <<"l", "a", "p", "t", "o", "p">>, <<"n", "o", "t", "e", "b", "o", "o", "k">> }

\* any(word in query.lower() for word in ['portatil', 'portátil', 'laptop', 'notebook'])
IsPortableQuery(query) == ContainsAny(portable_words, Lower(query))

\* max(threshold, 0.45) for a portable query
PortableFloor == 450

adjusted_threshold(query, threshold) ==
  IF IsPortableQuery(query) THEN Max(threshold, PortableFloor) ELSE threshold

\* mutant of BelowThreshold: the comparison turned round
BelowThresholdReversed(score, threshold) == score > threshold

\* score < adjusted_threshold
BelowThreshold(score, threshold) == score < threshold

\* the raw score of row i for a query whose similarity to each vector is sim
RawScore(idx, sim, i) == sim[idx.vectors[i]]

\* self.index.search(query_embedding, k): the k rows of highest inner product,
\* highest first; FAISS leaves the order of equal scores open, taken here as
\* by ascending or by descending row
IndexSearch(idx, sim, k, tie_ascending) ==
  LET rows == [i \in 1..ntotal(idx) |-> i]
      Before(a, b) ==
        \/ RawScore(idx, sim, a) > RawScore(idx, sim, b)
        \/ /\ RawScore(idx, sim, a) = RawScore(idx, sim, b)
           /\ IF tie_ascending THEN a < b ELSE a > b
  IN  SubSeq(SortSeq(rows, Before), 1, Min(k, ntotal(idx)))

\* product['similarity_score'] *= 0.7
Penalized(score) == (score * 7) \div 10

\* 'escritorio' in category or 'all-in-one' in product_name
IsDesktopLike(product) ==
  \/ Contains(<<"e", "s", "c", "r", "i", "t", "o", "r", "i", "o">>, Lower(Get(product, "category", << >>)))
  \/ Contains(<<"a", "l", "l", "-", "i", "n", "-", "o", "n", "e">>, Lower(product.name))

\* the copy of a metadata entry with its score attached and, for a portable
\* query, the desktop penalty applied
Scored(meta, score, query) ==
  [similarity_score |->
     IF IsPortableQuery(query) /\ IsDesktopLike(meta) THEN Penalized(score) ELSE score]
    @@ meta

\* the for loop over (score, idx): threshold, deduplication by lowercased
\* name, penalty, and the split into main products and accessories
\* one neighbour that passed the threshold: dropped when its lowercased name
\* was seen, else added to the main products or to the accessories
Accept(acc, product) ==
  IF Lower(product.name) \in acc.seen_products THEN acc
  ELSE [seen_products |-> acc.seen_products \cup {Lower(product.name)},
        main_products |->
          IF Get(product, "is_main_product", FALSE)
          THEN Append(acc.main_products, product) ELSE acc.main_products,
        accessory_products |->
          IF Get(product, "is_main_product", FALSE)
          THEN acc.accessory_products ELSE Append(acc.accessory_products, product)]

\* the for loop over (score, idx): bounds, threshold, deduplication by
\* lowercased name, penalty, and the split into main products and accessories
RECURSIVE ScanNeighbours(_, _, _, _, _, _, _)
ScanNeighbours(idx, metadata, sim, query, threshold, neighbours, acc) ==
  IF neighbours = << >> THEN acc
  ELSE IF \/ Head(neighbours) > Len(metadata)
          \/ BelowThreshold(RawScore(idx, sim, Head(neighbours)), threshold)
    THEN ScanNeighbours(idx, metadata, sim, query, threshold, Tail(neighbours), acc)
  ELSE CHOOSE r \in
         {ScanNeighbours(idx, metadata, sim, query, threshold, Tail(neighbours), next) :
            next \in {Accept(acc, product) :
                        product \in {Scored(metadata[Head(neighbours)],
                                            RawScore(idx, sim, Head(neighbours)), query)}}} :
         TRUE

\* s[:n]
Take(s, n) == SubSeq(s, 1, Min(n, Len(s)))

\* mutant of FillResults: the accessories taken before the main products
FillResultsAccessoriesFirst(main_products, accessory_products, top_k) ==
  LET results == Take(accessory_products, top_k)
  IN  IF Len(results) < top_k
      THEN results \o Take(main_products, top_k - Len(results))
      ELSE results

\* mutant of FillResults: the accessories appended whatever the quota left
FillResultsAlwaysBackfill(main_products, accessory_products, top_k) ==
  Take(main_products, top_k) \o Take(accessory_products, top_k)

\* results = main_products[:top_k], then accessories up to top_k
FillResults(main_products, accessory_products, top_k) ==
  LET results == Take(main_products, top_k)
  IN  IF Len(results) < top_k
      THEN results \o Take(accessory_products, top_k - Len(results))
      ELSE results

\* x put after the entries of the sorted list whose score is not lower
InsertByScore(sorted, x) ==
  LET n == Cardinality({i \in 1..Len(sorted) :
                          sorted[i].similarity_score >= x.similarity_score})
  IN  SubSeq(sorted, 1, n) \o <<x>> \o SubSeq(sorted, n + 1, Len(sorted))

\* mutant of SortByScore: the results left as they were filled
SortByScoreSkipped(s) == s

\* results.sort(key=similarity_score, reverse=True): stable
RECURSIVE SortByScore(_)
SortByScore(s) ==
  IF s = << >> THEN s
  ELSE CHOOSE r \in {InsertByScore(sorted, s[Len(s)]) :
                       sorted \in {SortByScore(SubSeq(s, 1, Len(s) - 1))}} : TRUE

\* the statements of search_products that can raise inside an index that is
\* loaded: the call of the encoder and the call of index.search
SearchSteps == {"encode", "index_search"}

\* mutant of SearchTryBlock: the try opened after the query was encoded
SearchTryBlockAfterEncode == SearchSteps \ {"encode"}

\* the statements inside the try of search_products, whose except returns []
SearchTryBlock == SearchSteps

\* the statement that raises in a call that meets env
SearchFault(idx, metadata, env) ==
  IF idx.isNone \/ metadata = << >> THEN "none"
  ELSE IF env.encode_raises THEN "encode"
  ELSE IF env.index_raises THEN "index_search"
  ELSE "none"

\* what search_products returns; env is what the call meets outside the
\* object: the similarity of the query to each vector, the order FAISS gives
\* equal scores, and whether the encoder raises
SearchProducts(idx, metadata, query, top_k, threshold, env) ==
  IF idx.isNone \/ metadata = << >> THEN << >>
  ELSE IF SearchFault(idx, metadata, env) # "none" THEN << >>
  ELSE
    CHOOSE results \in
      {SortByScore(FillResults(split.main_products, split.accessory_products, top_k)) :
         split \in {ScanNeighbours(idx, metadata, env.sim, query,
                                   adjusted_threshold(query, threshold),
                                   IndexSearch(idx, env.sim, Min(top_k * 3, ntotal(idx)),
                                               env.tie_ascending),
                                   [seen_products |-> {}, main_products |-> << >>,
                                    accessory_products |-> << >>])}} : TRUE

\* mutant of StoredEntry: product = self.product_metadata[idx], the score
\* written to the entry of the list itself
StoredEntryAliased(meta, product) == product

\* product = self.product_metadata[idx].copy(): product is a new dict, and the
\* entry of the list is what it was after product['similarity_score'] is
\* assigned and multiplied
StoredEntry(meta, product) == meta

\* self.product_metadata after the for loop of search_products: the rows that
\* reach the assignment of the score are the neighbours inside the list
\* whose raw score is not below the threshold
MetadataAfterSearch(idx, metadata, query, top_k, threshold, env) ==
  IF idx.isNone \/ metadata = << >> \/ SearchFault(idx, metadata, env) # "none"
  THEN metadata
  ELSE CHOOSE after \in
         {[i \in 1..Len(metadata) |->
             IF i \in Range(neighbours)
                /\ ~BelowThreshold(RawScore(idx, env.sim, i),
                                   adjusted_threshold(query, threshold))
             THEN StoredEntry(metadata[i],
                              Scored(metadata[i], RawScore(idx, env.sim, i), query))
             ELSE metadata[i]] :
            neighbours \in {IndexSearch(idx, env.sim, Min(top_k * 3, ntotal(idx)),
                                        env.tie_ascending)}} : TRUE

LowestScore == CHOOSE s \in Scores : \A t \in Scores : s <= t

\* the encoder raises: no similarity is computed and no neighbour retrieved
EncodeFailure(idx) ==
  [sim |-> [v \in Range(idx.vectors) |-> LowestScore], tie_ascending |-> FALSE,
   encode_raises |-> TRUE, index_raises |-> FALSE]

\* index.search raises (e.g. a query vector of another dimension)
IndexFailure(idx) ==
  [sim |-> [v \in Range(idx.vectors) |-> LowestScore], tie_ascending |-> FALSE,
   encode_raises |-> FALSE, index_raises |-> TRUE]

\* neither the encoder nor the index is called
NoSearch(idx) ==
  [sim |-> [v \in Range(idx.vectors) |-> LowestScore], tie_ascending |-> FALSE,
   encode_raises |-> FALSE, index_raises |-> FALSE]

\* what a search can meet
SearchEnvs(idx) ==
  [sim : [Range(idx.vectors) -> Scores], tie_ascending : BOOLEAN, encode_raises : {FALSE},
   index_raises : {FALSE}]
    \cup {EncodeFailure(idx), IndexFailure(idx)}

search_products(query, top_k, threshold, env) ==
  /\ product_metadata' =
       MetadataAfterSearch(index, product_metadata, query, top_k, threshold, env)
  /\ UNCHANGED <<index, index_file, metadata_file, embeddings_file, client, server,
                 conversation_history>>
  /\ call' = [op |-> "search_products", query |-> query, top_k |-> top_k,
              threshold |-> threshold, env |-> env]
  /\ ret' = [raised |-> SearchFault(index, product_metadata, env)
                           \notin (SearchTryBlock \cup {"none"}),
             value |-> SearchProducts(index, product_metadata, query, top_k, threshold, env)]

-----------------------------------------------------------------------------
(* search_by_filters *)

\* query: None (or "") or a text
FilterQueries == {<< >>, <<"h", "p">>}

\* an Optional[float] argument
NoPrice == [given |-> FALSE, value |-> 0]

PriceOf(v) == [given |-> TRUE, value |-> v]

no_discount == {"0%", "0", "Sin descuento"}

\* the filters searches are called with ("" and None both mean no filter)
FilterSets ==
  [category : {<< >>, <<"P", "O", "R", "T">>},
   brand : {<< >>, <<"h", "p">>},
   min_price : {NoPrice, PriceOf(50)},
   max_price : {NoPrice, PriceOf(3000)},
   with_discount : BOOLEAN]

\* mutant of Skipped: with_discount is not looked at
SkippedIgnoringDiscount(product, f) ==
  \/ (f.category # << >>
        /\ ~Contains(Lower(f.category), Lower(Get(product, "category", << >>))))
  \/ (f.brand # << >> /\ ~Contains(Lower(f.brand), Lower(Get(product, "brand", << >>))))
  \/ (f.min_price.given /\ Get(product, "price", 0) < f.min_price.value)
  \/ (f.max_price.given /\ Get(product, "price", 0) > f.max_price.value)

\* the chain of `continue` statements: TRUE when the product is dropped
Skipped(product, f) ==
  \/ (f.category # << >>
        /\ ~Contains(Lower(f.category), Lower(Get(product, "category", << >>))))
  \/ (f.brand # << >> /\ ~Contains(Lower(f.brand), Lower(Get(product, "brand", << >>))))
  \/ (f.min_price.given /\ Get(product, "price", 0) < f.min_price.value)
  \/ (f.max_price.given /\ Get(product, "price", 0) > f.max_price.value)
  \/ (f.with_discount /\ Get(product, "discount_percent", "0%") \in no_discount)

\* mutant of FilterLoop: the loop runs to the end of the candidates
FilterLoopWithoutBreak(semantic_results, f, top_k, filtered_results) ==
  LET Kept(product) == ~Skipped(product, f)
  IN  filtered_results \o SelectSeq(semantic_results, Kept)

\* the filter loop, which stops at top_k survivors
RECURSIVE FilterLoop(_, _, _, _)
FilterLoop(semantic_results, f, top_k, filtered_results) ==
  IF semantic_results = << >> \/ Len(filtered_results) >= top_k THEN filtered_results
  ELSE FilterLoop(Tail(semantic_results), f, top_k,
                  IF Skipped(Head(semantic_results), f) THEN filtered_results
                  ELSE Append(filtered_results, Head(semantic_results)))

\* the entries the filters are applied to: the semantic search with twice
\* the top_k, or (query "" or None) the first 3 * top_k metadata entries
SemanticResults(idx, metadata, query, top_k, threshold, env) ==
  IF query # << >>
  THEN SearchProducts(idx, metadata, query, top_k * 2, threshold, env)
  ELSE Take(metadata, top_k * 3)

\* semantic_results and metadata_after are SemanticResults and
\* MetadataAfterFilters of the arguments and of what the call meets,
\* computed once
\* self.product_metadata after search_by_filters: with a query, what the
\* search with twice the top_k leaves; without one, the entries are read into
\* new dicts {'id': i, **meta} and nothing is assigned
MetadataAfterFilters(idx, metadata, query, top_k, threshold, env) ==
  IF query # << >>
  THEN MetadataAfterSearch(idx, metadata, query, top_k * 2, threshold, env)
  ELSE metadata

search_by_filters(query, f, top_k, threshold, semantic_results, metadata_after) ==
  /\ product_metadata' = metadata_after
  /\ UNCHANGED <<index, index_file, metadata_file, embeddings_file, client, server,
                 conversation_history>>
  /\ call' = [op |-> "search_by_filters", query |-> query, filters |-> f,
              top_k |-> top_k, threshold |-> threshold]
  /\ ret' = [raised |-> FALSE, value |-> FilterLoop(semantic_results, f, top_k, << >>)]

-----------------------------------------------------------------------------
(* Searches on an index as the lifecycle leaves it: not loaded, built from *)
(* a catalog, or, after a rebuild that failed at a write, the rows of a    *)
(* catalog one product longer or shorter than the one the metadata is of.  *)

\* no call in progress
Idle == [op |-> "idle"]

IsPrefix(s, t) == Len(s) <= Len(t) /\ s = SubSeq(t, 1, Len(s))

LoadedStates ==
  {<<None, << >>, << >> >>}
    \cup {<<IndexFlatIP(Encode(c2)), [i \in 1..Len(c1) |-> Metadata(c1[i])], c1>> :
            <<c1, c2>> \in {p \in Catalogs \X Catalogs :
                              /\ IsPrefix(p[1], p[2]) \/ IsPrefix(p[2], p[1])
                              /\ Len(p[1]) - Len(p[2]) \in {-1, 0, 1}}}

SearchInit ==
  \E s \in LoadedStates :
    /\ index = s[1]
    /\ product_metadata = s[2]
    /\ index_file = IF s[3] = << >> THEN Missing ELSE Written(Encode(s[3]))
    /\ metadata_file = IF s[3] = << >> THEN Missing ELSE Written(s[2])
    /\ embeddings_file = IF s[3] = << >> THEN Missing ELSE Written(Encode(s[3]))
    /\ NoChatbot
    /\ call = Idle
    /\ ret = [raised |-> FALSE, value |-> FALSE]

\* requests are served one at a time: a search starts when none is in progress
Search ==
  /\ call = Idle
  /\ \E query \in Queries, top_k \in TopKs, threshold \in Thresholds, env \in SearchEnvs(index) :
       search_products(query, top_k, threshold, env)

FilteredSearch ==
  /\ call = Idle
  /\ \E query \in FilterQueries, top_k \in TopKs, threshold \in Thresholds :
       \E env \in (IF query = << >> THEN {NoSearch(index)} ELSE SearchEnvs(index)) :
         \E semantic_results \in
              {SemanticResults(index, product_metadata, query, top_k, threshold, env)} :
           \E metadata_after \in
                {MetadataAfterFilters(index, product_metadata, query, top_k, threshold, env)} :
             \E f \in FilterSets :
               search_by_filters(query, f, top_k, threshold, semantic_results, metadata_after)

\* the caller has taken the result
Answered ==
  /\ call.op \in {"search_products", "search_by_filters"}
  /\ call' = Idle
  /\ ret' = [raised |-> FALSE, value |-> FALSE]
  /\ UNCHANGED <<state, client, server, conversation_history>>

SearchNext == Search \/ FilteredSearch \/ Answered

SearchSpec == SearchInit /\ [][SearchNext]_vars

-----------------------------------------------------------------------------
(* Searches on an index built from a catalog in which one product is       *)
(* listed several times (the same name scraped from several pages)         *)

\* another document of the same product
Listing(product, id) == [product EXCEPT !._id = id]

ListingIds == 11..16

\* six listings of the laptop, then the desktop
ListingsCatalog ==
  [i \in 1..Cardinality(ListingIds) |-> Listing(Laptop, 10 + i)] \o <<Desktop>>

ListingsInit ==
  /\ index = IndexFlatIP(Encode(ListingsCatalog))
  /\ product_metadata = [i \in 1..Len(ListingsCatalog) |-> Metadata(ListingsCatalog[i])]
  /\ index_file = Written(Encode(ListingsCatalog))
  /\ metadata_file = Written([i \in 1..Len(ListingsCatalog) |-> Metadata(ListingsCatalog[i])])
  /\ embeddings_file = Written(Encode(ListingsCatalog))
  /\ NoChatbot
  /\ call = Idle
  /\ ret = [raised |-> FALSE, value |-> FALSE]

ListingsNext == Search \/ Answered

ListingsSpec == ListingsInit /\ [][ListingsNext]_vars

-----------------------------------------------------------------------------
(* A new object over persisted files of any content: the files are what    *)
(* an earlier process, a deployment or an operator left on the disk.       *)

\* what the disk may hold under the name of a file
FileContents(datas) ==
  {Missing, [state |-> "empty", data |-> << >>], [state |-> "corrupt", data |-> << >>]}
    \cup {Written(d) : d \in datas}

IndexFileContents == FileContents({Encode(c) : c \in Catalogs})

\* a JSON list of metadata entries, the empty list included
MetadataFileContents ==
  FileContents({[i \in 1..Len(c) |-> Metadata(c[i])] : c \in Catalogs})

\* the object is being constructed: index None and product_metadata [] are
\* assigned, _load_or_create_index has not run yet
Constructing == [op |-> "new", fault |-> "none", empty |-> FALSE]

LoadInit ==
  /\ index = None
  /\ product_metadata = << >>
  /\ index_file \in IndexFileContents
  /\ metadata_file \in MetadataFileContents
  /\ embeddings_file = Missing
  /\ NoChatbot
  /\ call = Constructing
  /\ ret = [raised |-> FALSE, value |-> FALSE]

LoadNext == Restart \/ Load

LoadSpec == LoadInit /\ [][LoadNext]_vars

-----------------------------------------------------------------------------
(* An argument that is a text, or None in place of one *)

TextInput(text) == [isNone |-> FALSE, text |-> text]

NoneInput == [isNone |-> TRUE, text |-> << >>]

-----------------------------------------------------------------------------
(* The methods that compute a value from their argument alone *)

\* the positions where a run of characters that are not whitespace starts
WordStarts(s) == {i \in 1..Len(s) : s[i] # " " /\ (i = 1 \/ s[i - 1] = " ")}

\* the run that starts at position i
WordAt(s, i) ==
  SubSeq(s, i, CHOOSE j \in i..Len(s) :
                 /\ \A k \in i..j : s[k] # " "
                 /\ j = Len(s) \/ s[j + 1] = " ")

\* str.split(): the maximal runs of characters that are not whitespace
Split(s) ==
  [n \in 1..Cardinality(WordStarts(s)) |->
     WordAt(s, CHOOSE i \in WordStarts(s) :
                 Cardinality({j \in WordStarts(s) : j < i}) = n - 1)]

\* sep.join(words)
RECURSIVE Join(_, _)
Join(words, sep) ==
  IF words = << >> THEN << >>
  ELSE IF Len(words) = 1 THEN words[1]
  ELSE words[1] \o sep \o Join(Tail(words), sep)

-----------------------------------------------------------------------------
(* _clean_query *)

stopwords ==
  {<<"b", "u", "s", "c", "a">>, <<"u", "n">>, <<"u", "n", "a">>, <<"e", "l">>, <<"l", "a">>, <<"l", "o", "s">>, <<"l", "a", "s">>, <<"d", "e">>, <<"e", "n">>, <<"y">>, <<"c", "o", "n">>,
   <<"p", "a", "r", "a">>}

\* the dict of _clean_query, in the order of its items
query_expansions ==
  << <<<<"v", "i", "c", "t", "u", "s">>, <<"h", "p", " ", "v", "i", "c", "t", "u", "s", " ", "g", "a", "m", "i", "n", "g", " ", "l", "a", "p", "t", "o", "p", " ", "c", "o", "m", "p", "u", "t", "a", "d", "o", "r", " ", "p", "o", "r", "t", "á", "t", "i", "l">>>>,
     <<<<"p", "o", "r", "t", "a", "t", "i", "l">>, <<"p", "o", "r", "t", "á", "t", "i", "l", " ", "l", "a", "p", "t", "o", "p", " ", "c", "o", "m", "p", "u", "t", "a", "d", "o", "r", " ", "n", "o", "t", "e", "b", "o", "o", "k", " ", "e", "s", " ", "p", "o", "r", "t", "á", "t", "i", "l", " ", "s", "í">>>>,
     <<<<"p", "o", "r", "t", "á", "t", "i", "l">>, <<"p", "o", "r", "t", "á", "t", "i", "l", " ", "l", "a", "p", "t", "o", "p", " ", "c", "o", "m", "p", "u", "t", "a", "d", "o", "r", " ", "n", "o", "t", "e", "b", "o", "o", "k", " ", "e", "s", " ", "p", "o", "r", "t", "á", "t", "i", "l", " ", "s", "í">>>>,
     <<<<"p", "o", "r", "t", "a", "t", "i", "l", "e", "s">>, <<"p", "o", "r", "t", "á", "t", "i", "l", "e", "s", " ", "l", "a", "p", "t", "o", "p", "s", " ", "c", "o", "m", "p", "u", "t", "a", "d", "o", "r", "e", "s", " ", "n", "o", "t", "e", "b", "o", "o", "k", "s", " ", "e", "s", " ", "p", "o", "r", "t", "á", "t", "i", "l", " ", "s", "í">>>>,
     <<<<"p", "o", "r", "t", "á", "t", "i", "l", "e", "s">>, <<"p", "o", "r", "t", "á", "t", "i", "l", "e", "s", " ", "l", "a", "p", "t", "o", "p", "s", " ", "c", "o", "m", "p", "u", "t", "a", "d", "o", "r", "e", "s", " ", "n", "o", "t", "e", "b", "o", "o", "k", "s", " ", "e", "s", " ", "p", "o", "r", "t", "á", "t", "i", "l", " ", "s", "í">>>>,
     <<<<"l", "a", "p", "t", "o", "p">>, <<"p", "o", "r", "t", "á", "t", "i", "l", " ", "l", "a", "p", "t", "o", "p", " ", "c", "o", "m", "p", "u", "t", "a", "d", "o", "r", " ", "n", "o", "t", "e", "b", "o", "o", "k", " ", "e", "s", " ", "p", "o", "r", "t", "á", "t", "i", "l", " ", "s", "í">>>>,
     <<<<"c", "o", "m", "p", "u", "t", "a", "d", "o", "r">>, <<"c", "o", "m", "p", "u", "t", "a", "d", "o", "r", " ", "p", "c", " ", "o", "r", "d", "e", "n", "a", "d", "o", "r">>>>,
     <<<<"c", "e", "l", "u", "l", "a", "r">>, <<"c", "e", "l", "u", "l", "a", "r", " ", "s", "m", "a", "r", "t", "p", "h", "o", "n", "e", " ", "m", "ó", "v", "i", "l", " ", "t", "e", "l", "é", "f", "o", "n", "o">>>>,
     <<<<"s", "m", "a", "r", "t", "p", "h", "o", "n", "e">>, <<"s", "m", "a", "r", "t", "p", "h", "o", "n", "e", " ", "c", "e", "l", "u", "l", "a", "r", " ", "m", "ó", "v", "i", "l">>>>,
     <<<<"t", "a", "b", "l", "e", "t">>, <<"t", "a", "b", "l", "e", "t", " ", "i", "p", "a", "d">>>>,
     <<<<"t", "v">>, <<"t", "e", "l", "e", "v", "i", "s", "o", "r", " ", "t", "v", " ", "s", "m", "a", "r", "t", " ", "t", "e", "l", "e", "v", "i", "s", "i", "o", "n">>>>,
     <<<<"t", "e", "l", "e", "v", "i", "s", "o", "r">>, <<"t", "e", "l", "e", "v", "i", "s", "o", "r", " ", "t", "v", " ", "s", "m", "a", "r", "t", " ", "t", "e", "l", "e", "v", "i", "s", "i", "o", "n">>>>,
     <<<<"a", "u", "d", "i", "f", "o", "n", "o", "s">>, <<"a", "u", "d", "í", "f", "o", "n", "o", "s", " ", "h", "e", "a", "d", "p", "h", "o", "n", "e", "s", " ", "a", "u", "r", "i", "c", "u", "l", "a", "r", "e", "s">>>>,
     <<<<"g", "a", "m", "e", "r">>, <<"g", "a", "m", "e", "r", " ", "g", "a", "m", "i", "n", "g", " ", "j", "u", "e", "g", "o", "s">>>>,
     <<<<"c", "a", "t", "e", "g", "o", "r", "i", "a">>, <<"c", "a", "t", "e", "g", "o", "r", "í", "a", " ", "t", "i", "p", "o">>>> >>

\* the words of the lowercased query that are not stopwords
CleanedWords(query) ==
  LET NotStopword(word) == word \notin stopwords
  IN  SelectSeq(Split(Lower(query)), NotStopword)

CleanedQuery(query) == Join(CleanedWords(query), <<" ">>)

\* the loop over query_expansions.items()
RECURSIVE Expand(_, _, _)
Expand(cleaned_query, items, expanded_query) ==
  IF items = << >> THEN expanded_query
  ELSE Expand(cleaned_query, Tail(items),
              IF Contains(Head(items)[1], cleaned_query)
              THEN expanded_query \o <<" ">> \o Head(items)[2]
              ELSE expanded_query)

category_emphasis == <<" ", "e", "s", " ", "p", "o", "r", "t", "á", "t", "i", "l", " ", "s", "í", " ", "n", "o", " ", "a", "l", "l", "-", "i", "n", "-", "o", "n", "e", " ", "n", "o", " ", "e", "s", "c", "r", "i", "t", "o", "r", "i", "o">>

CleanQueryOf(cleaned_query) ==
  CHOOSE result \in
    {Strip(IF /\ ContainsAny({<<"c", "a", "t", "e", "g", "o", "r", "i", "a">>, <<"c", "a", "t", "e", "g", "o", "r", "í", "a">>, <<"t", "i", "p", "o">>}, cleaned_query)
              /\ ContainsAny({<<"p", "o", "r", "t", "a", "t", "i", "l">>, <<"p", "o", "r", "t", "á", "t", "i", "l">>}, cleaned_query)
           THEN expanded_query \o category_emphasis
           ELSE expanded_query) :
       expanded_query \in {Expand(cleaned_query, query_expansions, cleaned_query)}} : TRUE

_clean_query(query) ==
  /\ call' = [op |-> "_clean_query", query |-> query]
  /\ \E cleaned_query \in {CleanedQuery(query)} :
       ret' = [raised |-> FALSE, value |-> CleanQueryOf(cleaned_query)]
  /\ UNCHANGED <<state, client, server, conversation_history>>

\* the queries tried: up to MaxQueryWords words of a small vocabulary, the
\* empty word standing for a doubled, leading or trailing space
MaxQueryWords == 3

QueryWords == {<< >>, <<"b", "u", "s", "c", "o">>, <<"b", "u", "s", "c", "a">>, <<"u", "n">>, <<"p", "o", "r", "t", "a", "t", "i", "l">>, <<"L", "a", "p", "t", "o", "p">>, <<"c", "a", "t", "e", "g", "o", "r", "i", "a">>}

CleanQueries ==
  UNION {{Join(ws, <<" ">>) : ws \in [1..n -> QueryWords]} : n \in 1..MaxQueryWords}

-----------------------------------------------------------------------------
(* _normalize_category called on its own *)

category_keys == {category_map[i][1] : i \in 1..Len(category_map)}

canonical_labels == {category_map[i][2] : i \in 1..Len(category_map)}

\* the raw categories tried: every key, every label, keys in capitals or
\* between spaces, categories the table does not know, blanks and None
RawCategories ==
  category_keys \cup canonical_labels
    \cup {<< >>, <<" ">>, <<"F", "u", "n", "d", "a", "s">>, <<" ", "F", "u", "n", "d", "a", "s", " ">>, <<" ", "P", "O", "R", "T", "A", "T", "I", "L", "E", "S", " ">>, <<"L", "a", "p", "t", "o", "p", "s">>, <<"A", "U", "D", "Í", "F", "O", "N", "O", "S">>,
          <<"S", "i", "n", " ", "c", "a", "t", "e", "g", "o", "r", "í", "a">>, <<"t", "v", " ", "/", " ", "s", "m", "a", "r", "t", "-", "t", "v">>}

NormalizeCategory ==
  /\ call = Idle
  /\ \E category \in RawCategories :
       /\ call' = [op |-> "_normalize_category", category |-> category]
       /\ ret' = [raised |-> FALSE, value |-> _normalize_category(category)]
  /\ UNCHANGED <<state, client, server, conversation_history>>

-----------------------------------------------------------------------------
(* AlkostoScraper.extract_category_from_url *)

\* category_map of extract_category_from_url, in the order of the dict
url_category_map ==
  << <<<<"c", "e", "l", "u", "l", "a", "r", "e", "s", "/", "s", "m", "a", "r", "t", "p", "h", "o", "n", "e", "s">>, <<"S", "m", "a", "r", "t", "p", "h", "o", "n", "e", "s">>>>,
     <<<<"c", "o", "m", "p", "u", "t", "a", "d", "o", "r", "e", "s", "-", "t", "a", "b", "l", "e", "t", "/", "c", "o", "m", "p", "u", "t", "a", "d", "o", "r", "e", "s", "-", "p", "o", "r", "t", "a", "t", "i", "l", "e", "s">>, <<"P", "o", "r", "t", "á", "t", "i", "l", "e", "s">>>>,
     <<<<"c", "o", "m", "p", "u", "t", "a", "d", "o", "r", "e", "s", "-", "t", "a", "b", "l", "e", "t", "/", "c", "o", "m", "p", "u", "t", "a", "d", "o", "r", "e", "s", "-", "e", "s", "c", "r", "i", "t", "o", "r", "i", "o", "-", "a", "l", "l", "-", "i", "n", "-", "o", "n", "e">>, <<"C", "o", "m", "p", "u", "t", "a", "d", "o", "r", "e", "s", " ", "d", "e", " ", "E", "s", "c", "r", "i", "t", "o", "r", "i", "o">>>>,
     <<<<"c", "o", "m", "p", "u", "t", "a", "d", "o", "r", "e", "s", "-", "t", "a", "b", "l", "e", "t", "/", "t", "a", "b", "l", "e", "t", "a", "s", "-", "i", "p", "a", "d", "s">>, <<"T", "a", "b", "l", "e", "t", "s">>>>,
     <<<<"a", "c", "c", "e", "s", "o", "r", "i", "o", "s", "-", "e", "l", "e", "c", "t", "r", "o", "n", "i", "c", "a">>, <<"A", "c", "c", "e", "s", "o", "r", "i", "o", "s", " ", "E", "l", "e", "c", "t", "r", "ó", "n", "i", "c", "o", "s">>>>,
     <<<<"c", "o", "m", "p", "u", "t", "a", "d", "o", "r", "e", "s", "-", "t", "a", "b", "l", "e", "t", "/", "m", "o", "n", "i", "t", "o", "r", "e", "s">>, <<"M", "o", "n", "i", "t", "o", "r", "e", "s">>>>,
     <<<<"c", "o", "m", "p", "u", "t", "a", "d", "o", "r", "e", "s", "-", "t", "a", "b", "l", "e", "t", "/", "p", "r", "o", "y", "e", "c", "t", "o", "r", "e", "s", "-", "v", "i", "d", "e", "o", "b", "e", "a", "m">>, <<"P", "r", "o", "y", "e", "c", "t", "o", "r", "e", "s">>>>,
     <<<<"t", "v", "/", "s", "m", "a", "r", "t", "-", "t", "v">>, <<"T", "e", "l", "e", "v", "i", "s", "o", "r", "e", "s">>>>,
     <<<<"c", "o", "m", "p", "l", "e", "m", "e", "n", "t", "o", "s", "-", "t", "v">>, <<"C", "o", "m", "p", "l", "e", "m", "e", "n", "t", "o", "s", " ", "T", "V">>>>,
     <<<<"a", "c", "c", "e", "s", "o", "r", "i", "o", "s", "-", "e", "l", "e", "c", "t", "r", "o", "n", "i", "c", "a", "/", "a", "c", "c", "e", "s", "o", "r", "i", "o", "s", "-", "t", "v", "-", "v", "i", "d", "e", "o">>, <<"A", "c", "c", "e", "s", "o", "r", "i", "o", "s", " ", "T", "V">>>>,
     <<<<"v", "i", "d", "e", "o", "j", "u", "e", "g", "o", "s", "/", "c", "o", "n", "s", "o", "l", "a", "s">>, <<"C", "o", "n", "s", "o", "l", "a", "s">>>>,
     <<<<"v", "i", "d", "e", "o", "j", "u", "e", "g", "o", "s", "/", "a", "c", "c", "e", "s", "o", "r", "i", "o", "s", "-", "v", "i", "d", "e", "o", "j", "u", "e", "g", "o", "s">>, <<"A", "c", "c", "e", "s", "o", "r", "i", "o", "s", " ", "V", "i", "d", "e", "o", "j", "u", "e", "g", "o", "s">>>>,
     <<<<"c", "a", "s", "a", "-", "i", "n", "t", "e", "l", "i", "g", "e", "n", "t", "e", "-", "d", "o", "m", "o", "t", "i", "c", "a">>, <<"C", "a", "s", "a", " ", "I", "n", "t", "e", "l", "i", "g", "e", "n", "t", "e">>>> >>

\* the keywords tried when no path of the table is in the URL, in order
url_fallbacks ==
  << <<<<"c", "e", "l", "u", "l", "a", "r", "e", "s">>, <<"S", "m", "a", "r", "t", "p", "h", "o", "n", "e", "s">>>>,
     <<<<"c", "o", "m", "p", "u", "t", "a", "d", "o", "r", "e", "s">>, <<"C", "o", "m", "p", "u", "t", "a", "d", "o", "r", "e", "s">>>>,
     <<<<"t", "a", "b", "l", "e", "t">>, <<"T", "a", "b", "l", "e", "t", "s">>>>,
     <<<<"t", "v">>, <<"T", "e", "l", "e", "v", "i", "s", "o", "r", "e", "s">>>>,
     <<<<"v", "i", "d", "e", "o", "j", "u", "e", "g", "o", "s">>, <<"V", "i", "d", "e", "o", "j", "u", "e", "g", "o", "s">>>> >>

\* the value of the first pair whose key is in the url, or default
FirstIn(pairs, url, default) ==
  IF \E i \in 1..Len(pairs) : Contains(pairs[i][1], url)
  THEN pairs[CHOOSE i \in 1..Len(pairs) :
               /\ Contains(pairs[i][1], url)
               /\ \A j \in 1..(i - 1) : ~Contains(pairs[j][1], url)][2]
  ELSE default

extract_category_from_url(url) ==
  IF url.isNone \/ url.text = << >> THEN <<"S", "i", "n", " ", "c", "a", "t", "e", "g", "o", "r", "í", "a">>
  ELSE FirstIn(url_category_map, url.text,
               FirstIn(url_fallbacks, url.text, <<"E", "l", "e", "c", "t", "r", "ó", "n", "i", "c", "o", "s">>))

alkosto == <<"h", "t", "t", "p", "s", ":", "/", "/", "w", "w", "w", ".", "a", "l", "k", "o", "s", "t", "o", ".", "c", "o", "m", "/">>

\* the URLs tried: None, the empty string, the page of every path of the
\* table, a page of every fallback keyword, and pages the scraper knows nothing of
ScraperUrls ==
  {NoneInput, TextInput(<< >>)}
    \cup {TextInput(alkosto \o url_category_map[i][1]) : i \in 1..Len(url_category_map)}
    \cup {TextInput(alkosto \o url_fallbacks[i][1] \o <<"/", "o", "f", "e", "r", "t", "a", "s">>) : i \in 1..Len(url_fallbacks)}
    \cup {TextInput(alkosto \o <<"u", "n", "k", "n", "o", "w", "n", "-", "c", "a", "t", "e", "g", "o", "r", "y">>), TextInput(alkosto \o <<"h", "o", "g", "a", "r", "/", "c", "o", "c", "i", "n", "a">>),
          TextInput(alkosto)}

ExtractCategory ==
  /\ call = Idle
  /\ \E url \in ScraperUrls :
       /\ call' = [op |-> "extract_category_from_url", url |-> url]
       /\ ret' = [raised |-> FALSE, value |-> extract_category_from_url(url)]
  /\ UNCHANGED <<state, client, server, conversation_history>>

-----------------------------------------------------------------------------
(* The calls of these methods, one at a time, on an object not yet loaded *)

FunctionOps == {"_clean_query", "_normalize_category", "extract_category_from_url"}

FunctionInit ==
  /\ index = None
  /\ product_metadata = << >>
  /\ index_file = Missing
  /\ metadata_file = Missing
  /\ embeddings_file = Missing
  /\ NoChatbot
  /\ call = Idle
  /\ ret = [raised |-> FALSE, value |-> FALSE]

CleanQuery == call = Idle /\ \E query \in CleanQueries : _clean_query(query)

\* the caller has taken the value
Returned ==
  /\ call.op \in FunctionOps
  /\ call' = Idle
  /\ ret' = [raised |-> FALSE, value |-> FALSE]
  /\ UNCHANGED <<state, client, server, conversation_history>>

FunctionNext == CleanQuery \/ NormalizeCategory \/ ExtractCategory \/ Returned

FunctionSpec == FunctionInit /\ [][FunctionNext]_vars

-----------------------------------------------------------------------------
(* get_stats *)

Digits == <<"0", "1", "2", "3", "4", "5", "6", "7", "8", "9">>

\* the decimal digits of a natural number
RECURSIVE DecimalDigits(_)
DecimalDigits(n) ==
  IF n < 10 THEN <<Digits[n + 1]>> ELSE Append(DecimalDigits(n \div 10), Digits[(n % 10) + 1])

\* round(part / whole * 1000): the percentage in tenths, a tie going to the
\* even tenth as the format of a float does
PercentTenths(part, whole) ==
  LET floor == (part * 1000) \div whole
      twice_rest == 2 * ((part * 1000) % whole)
  IN  IF twice_rest > whole \/ (twice_rest = whole /\ floor % 2 = 1) THEN floor + 1 ELSE floor

\* f"{(part / whole * 100):.1f}%"
FormatPercent(part, whole) ==
  DecimalDigits(PercentTenths(part, whole) \div 10)
    \o <<".", Digits[(PercentTenths(part, whole) % 10) + 1], "%">>

\* mutant of HasDiscount: only "0%" is taken for no discount
HasDiscountUnlessZeroPercent(product) == Get(product, "discount_percent", "0%") # "0%"

HasDiscount(product) == Get(product, "discount_percent", "0%") \notin no_discount

WithDiscount(metadata) ==
  Cardinality({i \in 1..Len(metadata) : HasDiscount(metadata[i])})

\* prices are in thousands of pesos
price_range(price) ==
  IF price < 100 THEN "0-100k"
  ELSE IF price < 500 THEN "100k-500k"
  ELSE IF price < 1000 THEN "500k-1M"
  ELSE IF price < 2000 THEN "1M-2M"
  ELSE "2M+"

\* the ten most frequent keys with their counts
TopTen(counts) ==
  LET Rank(k) == Cardinality({j \in DOMAIN counts : counts[j] > counts[k]})
  IN  IF Cardinality(DOMAIN counts) <= 10 THEN counts
      ELSE [k \in {j \in DOMAIN counts : Rank(j) < 10} |-> counts[k]]

GetStats(metadata) ==
  IF metadata = << >> THEN [empty |-> TRUE]
  ELSE
    [empty |-> FALSE,
     total_products |-> Len(metadata),
     categories |->
       TopTen([cat \in {metadata[i].category : i \in 1..Len(metadata)} |->
                 Cardinality({i \in 1..Len(metadata) : metadata[i].category = cat})]),
     top_brands |->
       TopTen([brand \in {metadata[i].brand : i \in 1..Len(metadata)} \ {<< >>} |->
                 Cardinality({i \in 1..Len(metadata) : metadata[i].brand = brand})]),
     price_ranges |->
       [range \in {"0-100k", "100k-500k", "500k-1M", "1M-2M", "2M+"} |->
          Cardinality({i \in 1..Len(metadata) : price_range(metadata[i].price) = range})],
     products_with_discount |-> WithDiscount(metadata),
     discount_percentage |-> FormatPercent(WithDiscount(metadata), Len(metadata))]

get_stats ==
  /\ call' = [op |-> "get_stats"]
  /\ ret' = [raised |-> FALSE, value |-> GetStats(product_metadata)]
  /\ UNCHANGED <<state, client, server, conversation_history>>

\* the catalogs whose statistics are taken: up to MaxStatsProducts products,
\* the first ones with a discount label and the others with each of the
\* labels a product without discount is stored with
MaxStatsProducts == 10

Discounted == <<Sleeve, Laptop>>

Undiscounted == <<Cable, Mouse, Desktop>>

StatsCatalog(n, with_discount) ==
  [i \in 1..n |-> IF i <= with_discount
                  THEN Discounted[((i - 1) % Len(Discounted)) + 1]
                  ELSE Undiscounted[((i - 1) % Len(Undiscounted)) + 1]]

StatsCatalogs ==
  {StatsCatalog(n, d) : <<n, d>> \in {p \in (0..MaxStatsProducts) \X (0..MaxStatsProducts) :
                                        p[2] <= p[1]}}

\* an object whose index was built from one of these catalogs
StatsInit ==
  \E c \in StatsCatalogs :
    /\ index = (IF c = << >> THEN None ELSE IndexFlatIP(Encode(c)))
    /\ product_metadata = [i \in 1..Len(c) |-> Metadata(c[i])]
    /\ index_file = (IF c = << >> THEN Missing ELSE Written(Encode(c)))
    /\ metadata_file = (IF c = << >> THEN Missing ELSE Written([i \in 1..Len(c) |-> Metadata(c[i])]))
    /\ embeddings_file = (IF c = << >> THEN Missing ELSE Written(Encode(c)))
    /\ NoChatbot
    /\ call = Idle
    /\ ret = [raised |-> FALSE, value |-> FALSE]

Stats == call = Idle /\ get_stats

StatsReturned ==
  /\ call.op = "get_stats"
  /\ call' = Idle
  /\ ret' = [raised |-> FALSE, value |-> FALSE]
  /\ UNCHANGED <<state, client, server, conversation_history>>

StatsNext == Stats \/ StatsReturned

StatsSpec == StatsInit /\ [][StatsNext]_vars

-----------------------------------------------------------------------------
(* EmbeddingManager._create_product_text *)

\* a value that may be None: of a text, .text; of a number, .n; of the
\* specifications, .items (an empty sequence if the value has no items())
Number(n) == [isNone |-> FALSE, n |-> n]

NoNumber == [isNone |-> TRUE, n |-> 0]

SpecMap(items) == [isNone |-> FALSE, isMap |-> TRUE, items |-> items]

NoSpecs == [isNone |-> TRUE, isMap |-> FALSE, items |-> << >>]

SpecList == [isNone |-> FALSE, isMap |-> FALSE, items |-> << >>]

\* str(value) of a text or None, as an f-string formats it
Str(value) == IF value.isNone THEN <<"N", "o", "n", "e">> ELSE value.text

\* characters re.sub(r'[^\w\s|:.-]', ' ', text) leaves alone
KeptChars ==
  Range(LowerChars) \cup Range(UpperChars) \cup Range(Digits) \cup {"_", " ", "|", ":", ".", "-"}

\* the characters of t at the positions lo..hi that are kept, in order
RECURSIVE KeepBetween(_, _, _, _)
KeepBetween(t, kept, lo, hi) ==
  IF lo > hi THEN << >>
  ELSE IF lo = hi THEN (IF lo \in kept THEN <<t[lo]>> ELSE << >>)
  ELSE KeepBetween(t, kept, lo, (lo + hi) \div 2)
         \o KeepBetween(t, kept, ((lo + hi) \div 2) + 1, hi)

\* re.sub(r'\s+', ' ', text).strip()
CollapseSpaces(t) ==
  KeepBetween(t, {i \in 1..Len(t) :
                    \/ t[i] # " "
                    \/ /\ i > 1 /\ t[i - 1] # " "
                       /\ \E j \in (i + 1)..Len(t) : t[j] # " "},
              1, Len(t))

_clean_text(text) ==
  IF text = << >> THEN << >>
  ELSE CollapseSpaces([i \in 1..Len(text) |-> IF text[i] \in KeptChars THEN text[i] ELSE " "])

important_specs ==
  {<<"p", "r", "o", "c", "e", "s", "a", "d", "o", "r">>, <<"p", "r", "o", "c", "e", "s", "s", "o", "r">>, <<"c", "p", "u">>, <<"r", "a", "m">>, <<"m", "e", "m", "o", "r", "i", "a">>, <<"a", "l", "m", "a", "c", "e", "n", "a", "m", "i", "e", "n", "t", "o">>,
   <<"s", "t", "o", "r", "a", "g", "e">>, <<"d", "i", "s", "c", "o">>, <<"p", "a", "n", "t", "a", "l", "l", "a">>, <<"s", "c", "r", "e", "e", "n">>, <<"d", "i", "s", "p", "l", "a", "y">>, <<"b", "a", "t", "e", "r", "í", "a">>, <<"b", "a", "t", "t", "e", "r", "y">>,
   <<"c", "á", "m", "a", "r", "a">>, <<"c", "a", "m", "e", "r", "a">>, <<"c", "o", "l", "o", "r">>, <<"m", "o", "d", "e", "l", "o">>, <<"m", "o", "d", "e", "l">>, <<"t", "a", "m", "a", "ñ", "o">>, <<"s", "i", "z", "e">>,
   <<"r", "e", "s", "o", "l", "u", "c", "i", "ó", "n">>, <<"r", "e", "s", "o", "l", "u", "t", "i", "o", "n">>, <<"c", "a", "p", "a", "c", "i", "d", "a", "d">>, <<"c", "a", "p", "a", "c", "i", "t", "y">>, <<"s", "i", "s", "t", "e", "m", "a", " ", "o", "p", "e", "r", "a", "t", "i", "v", "o">>,
   <<"o", "s">>, <<"a", "n", "d", "r", "o", "i", "d">>, <<"i", "o", "s">>, <<"w", "i", "n", "d", "o", "w", "s">>, <<"p", "u", "l", "g", "a", "d", "a", "s">>, <<"p", "u", "l", "g", "a", "d", "a">>, <<"i", "n", "c", "h">>}

\* f"{key}: {value}"
SpecText(item) == item[1] \o <<":", " ">> \o item[2]

\* the second loop over specs.items(), from item i on
RECURSIVE AddDetails(_, _, _)
AddDetails(text_parts, items, i) ==
  IF i > Len(items) THEN text_parts
  ELSE IF ~Contains(SpecText(items[i]), Join(text_parts, <<" ", "|", " ">>))
  THEN AddDetails(Append(text_parts, <<"D", "e", "t", "a", "l", "l", "e", ":", " ">> \o SpecText(items[i])), items, i + 1)
  ELSE AddDetails(text_parts, items, i + 1)

\* the statement of the try block that raises, if one does
ProductTextFault(product) ==
  \E category \in {IF product.category.isNone THEN _normalize_category(<< >>)
                   ELSE _normalize_category(product.category.text)} :
    \/ product.name.isNone /\ ~Contains(<<"p", "o", "r", "t", "á", "t", "i", "l">>, Lower(category))
    \/ _is_main_product_category(category) /\ product.price.isNone
    \/ product.specifications.isNone
    \/ ~product.specifications.isMap

\* the segments that say whether the product is a portable computer; category
\* is the normalized category
PortabilityParts(name, category) ==
  IF Contains(<<"p", "o", "r", "t", "á", "t", "i", "l">>, Lower(category)) \/ Contains(<<"p", "o", "r", "t", "a", "t", "i", "l">>, Lower(name))
  THEN <<<<"T", "i", "p", "o", ":", " ", "C", "o", "m", "p", "u", "t", "a", "d", "o", "r", " ", "P", "o", "r", "t", "á", "t", "i", "l", " ", "L", "a", "p", "t", "o", "p", " ", "N", "o", "t", "e", "b", "o", "o", "k">>, <<"E", "s", " ", "p", "o", "r", "t", "á", "t", "i", "l", ":", " ", "s", "í">>>>
  ELSE IF Contains(<<"e", "s", "c", "r", "i", "t", "o", "r", "i", "o">>, Lower(category)) \/ Contains(<<"a", "l", "l", " ", "i", "n", " ", "o", "n", "e">>, Lower(name))
  THEN <<<<"T", "i", "p", "o", ":", " ", "C", "o", "m", "p", "u", "t", "a", "d", "o", "r", " ", "d", "e", " ", "E", "s", "c", "r", "i", "t", "o", "r", "i", "o", " ", "A", "l", "l", "-", "i", "n", "-", "O", "n", "e">>, <<"E", "s", " ", "p", "o", "r", "t", "á", "t", "i", "l", ":", " ", "n", "o">>>>
  ELSE << >>

\* the text of a product on which no statement raises
ProductText(product) ==
  LET name == Str(product.name)
      category == IF product.category.isNone THEN _normalize_category(<< >>)
                  ELSE _normalize_category(product.category.text)
      items == product.specifications.items
      type_parts == PortabilityParts(name, category)
      price_parts ==
        IF _is_main_product_category(category)
        THEN <<<<"P", "r", "e", "c", "i", "o", ":", " ">> \o DecimalDigits(product.price.n) \o <<" ", "p", "e", "s", "o", "s">>>>
               \o (IF product.discount_percent \notin {<<"0", "%">>, <<"0">>, <<"S", "i", "n", " ", "d", "e", "s", "c", "u", "e", "n", "t", "o">>}
                   THEN <<<<"D", "e", "s", "c", "u", "e", "n", "t", "o", ":", " ">> \o product.discount_percent>> ELSE << >>)
        ELSE << >>
      important ==
        SelectSeq(items, LAMBDA item : ContainsAny(important_specs, Lower(item[1])))
      text_parts ==
        <<<<"P", "r", "o", "d", "u", "c", "t", "o", ":", " ">> \o name>> \o type_parts
          \o <<<<"N", "o", "m", "b", "r", "e", ":", " ">> \o name, <<"M", "a", "r", "c", "a", ":", " ">> \o product.brand, <<"C", "a", "t", "e", "g", "o", "r", "í", "a", ":", " ">> \o category>>
          \o price_parts \o <<<<"T", "i", "e", "n", "d", "a", ":", " ", "a", "l", "k", "o", "s", "t", "o">>>>
          \o [i \in 1..Len(important) |-> <<"E", "s", "p", "e", "c", "i", "f", "i", "c", "a", "c", "i", "ó", "n", ":", " ">> \o SpecText(important[i])]
  IN _clean_text(Join(IF _is_main_product_category(category) /\ Len(items) <= 15
                      THEN AddDetails(text_parts, items, 1) ELSE text_parts, <<" ", "|", " ">>))

\* the text, or on an exception product.get('name', 'Producto sin nombre')
_create_product_text(product) ==
  IF ProductTextFault(product) THEN product.name
  ELSE TextInput(ProductText(product))

\* the statements of _create_product_text that can raise: all are in its
\* try block, and the handler reads a key of a dict
ProductTextSteps == {"build"}

ProductTextTryBlock == ProductTextSteps

TextProducts ==
  [name : {TextInput(<<"V", "i", "c", "t", "u", "s", " ", "1", "5">>), TextInput(<<"F", "u", "n", "d", "a", " ", "p", "o", "r", "t", "a", "t", "i", "l">>), NoneInput},
   brand : {<<"H", "P">>},
   category : {TextInput(<<"P", "o", "r", "t", "á", "t", "i", "l", "e", "s">>), TextInput(<<"s", "m", "a", "r", "t", "p", "h", "o", "n", "e", "s">>), TextInput(<<"F", "u", "n", "d", "a", "s">>),
               NoneInput},
   price : {Number(3000), NoNumber},
   discount_percent : {<<"1", "5", "%">>, <<"0", "%">>},
   specifications : {SpecMap(<< >>), SpecMap(<< <<<<"R", "A", "M">>, <<"1", "6", " ", "G", "B">>>>, <<<<"G", "a", "r", "a", "n", "t", "í", "a">>, <<"1", " ", "a", "ñ", "o">>>> >>),
                     SpecList, NoSpecs}]

CreateProductText ==
  /\ call = Idle
  /\ \E product \in TextProducts :
       /\ call' = [op |-> "_create_product_text", product |-> product]
       /\ ret' = [raised |-> ProductTextFault(product)
                               /\ "build" \notin ProductTextTryBlock,
                  value |-> _create_product_text(product)]
  /\ UNCHANGED <<state, client, server, conversation_history>>

\* the caller has taken the text
TextReturned ==
  /\ call.op = "_create_product_text"
  /\ call' = Idle
  /\ ret' = [raised |-> FALSE, value |-> FALSE]
  /\ UNCHANGED <<state, client, server, conversation_history>>

TextNext == CreateProductText \/ TextReturned

\* the texts of product records, one at a time, on an object not yet loaded
TextSpec == FunctionInit /\ [][TextNext]_vars

-----------------------------------------------------------------------------
(* Searches on an index built from a catalog that holds products named     *)
(* "all in one" outside the desktop computers                              *)

Printer ==
  [_id |-> 6, name |-> <<"I", "m", "p", "r", "e", "s", "o", "r", "a", " ", "A", "l", "l", " ", "I", "n", " ", "O", "n", "e">>, brand |-> <<"H", "P">>,
   category |-> <<"I", "m", "p", "r", "e", "s", "o", "r", "a", "s">>,
   discount_price_num |-> 600, original_price_num |-> 700, discount_percent |-> "14%"]

PortabilityCatalog == <<Laptop, Desktop, Printer>>

PortabilityInit ==
  /\ index = IndexFlatIP(Encode(PortabilityCatalog))
  /\ product_metadata =
       [i \in 1..Len(PortabilityCatalog) |-> Metadata(PortabilityCatalog[i])]
  /\ index_file = Written(Encode(PortabilityCatalog))
  /\ metadata_file =
       Written([i \in 1..Len(PortabilityCatalog) |-> Metadata(PortabilityCatalog[i])])
  /\ embeddings_file = Written(Encode(PortabilityCatalog))
  /\ NoChatbot
  /\ call = Idle
  /\ ret = [raised |-> FALSE, value |-> FALSE]

PortabilityNext == Search \/ Answered

PortabilitySpec == PortabilityInit /\ [][PortabilityNext]_vars

-----------------------------------------------------------------------------
(* TechChatbot: the classification of the user's input *)

specific_store_queries ==
  {<<"d", "e", " ", "q", "u", "e", " ", "t", "i", "e", "n", "d", "a", "s">>, <<"q", "u", "e", " ", "t", "i", "e", "n", "d", "a", "s">>, <<"q", "u", "é", " ", "t", "i", "e", "n", "d", "a", "s">>, <<"t", "i", "e", "n", "d", "a", "s", " ", "t", "i", "e", "n", "e", "s">>,
   <<"t", "i", "e", "n", "d", "a", "s", " ", "t", "i", "e", "n", "e">>, <<"t", "i", "e", "n", "d", "a", "s", " ", "h", "a", "y">>, <<"t", "i", "e", "n", "d", "a", "s", " ", "d", "i", "s", "p", "o", "n", "i", "b", "l", "e", "s">>, <<"t", "i", "e", "n", "d", "a", "s", " ", "t", "r", "a", "b", "a", "j", "a", "s">>,
   <<"t", "i", "e", "n", "d", "a", "s", " ", "m", "a", "n", "e", "j", "a", "s">>, <<"e", "n", " ", "q", "u", "é", " ", "a", "l", "m", "a", "c", "e", "n", "e", "s">>, <<"q", "u", "é", " ", "e", "m", "p", "r", "e", "s", "a", "s">>}

general_store_indicators == {<<"t", "i", "e", "n", "d", "a">>, <<"s", "t", "o", "r", "e">>, <<"a", "l", "m", "a", "c", "é", "n">>, <<"e", "m", "p", "r", "e", "s", "a">>}

_is_store_related_query(user_input) ==
  \E input_lower \in {Strip(Lower(user_input))} :
    \/ ContainsAny(specific_store_queries, input_lower)
    \/ (ContainsAny(general_store_indicators, input_lower) /\ Len(Split(input_lower)) <= 4)

conversation_phrases ==
  {<<"h", "o", "l", "a">>, <<"h", "e", "l", "l", "o">>, <<"h", "i">>, <<"b", "u", "e", "n", "o", "s", " ", "d", "í", "a", "s">>, <<"b", "u", "e", "n", "a", "s", " ", "t", "a", "r", "d", "e", "s">>, <<"b", "u", "e", "n", "a", "s", " ", "n", "o", "c", "h", "e", "s">>,
   <<"q", "u", "é", " ", "t", "a", "l">>, <<"c", "ó", "m", "o", " ", "e", "s", "t", "á", "s">>, <<"c", "ó", "m", "o", " ", "t", "e", " ", "v", "a">>, <<"q", "u", "é", " ", "h", "a", "y">>, <<"q", "u", "é", " ", "o", "n", "d", "a">>,
   <<"g", "r", "a", "c", "i", "a", "s">>, <<"t", "h", "a", "n", "k", "s">>, <<"t", "h", "a", "n", "k", " ", "y", "o", "u">>, <<"a", "d", "i", "ó", "s">>, <<"c", "h", "a", "o">>, <<"b", "y", "e">>,
   <<"s", "a", "l", "u", "d", "o", "s">>, <<"o", "k">>, <<"v", "a", "l", "e">>, <<"e", "n", "t", "e", "n", "d", "i", "d", "o">>, <<"d", "e", " ", "n", "a", "d", "a">>, <<"p", "e", "r", "d", "ó", "n">>, <<"d", "i", "s", "c", "u", "l", "p", "a">>,
   <<"c", "ó", "m", "o", " ", "e", "s", "t", "á", "s", " ", "h", "o", "y">>, <<"q", "u", "é", " ", "c", "u", "e", "n", "t", "a", "s">>, <<"c", "ó", "m", "o", " ", "h", "a", " ", "e", "s", "t", "a", "d", "o">>, <<"q", "u", "é", " ", "m", "e", " ", "c", "u", "e", "n", "t", "a", "s">>}

general_conversation_words ==
  {<<"c", "ó", "m", "o", " ", "e", "s", "t", "á", "s">>, <<"q", "u", "é", " ", "t", "a", "l">>, <<"c", "ó", "m", "o", " ", "t", "e", " ", "v", "a">>, <<"g", "r", "a", "c", "i", "a", "s">>, <<"h", "o", "l", "a">>, <<"b", "u", "e", "n", "o", "s", " ", "d", "í", "a", "s">>,
   <<"b", "u", "e", "n", "a", "s", " ", "t", "a", "r", "d", "e", "s">>, <<"b", "u", "e", "n", "a", "s", " ", "n", "o", "c", "h", "e", "s">>, <<"a", "d", "i", "ó", "s">>, <<"c", "h", "a", "o">>, <<"b", "y", "e">>}

search_intent_words ==
  {<<"b", "u", "s", "c", "a", "r">>, <<"b", "u", "s", "c", "o">>, <<"e", "n", "c", "o", "n", "t", "r", "a", "r">>, <<"e", "n", "c", "u", "e", "n", "t", "r", "a">>, <<"q", "u", "i", "e", "r", "o">>, <<"n", "e", "c", "e", "s", "i", "t", "o">>,
   <<"r", "e", "c", "o", "m", "i", "e", "n", "d", "a">>, <<"m", "u", "e", "s", "t", "r", "a">>, <<"m", "u", "é", "s", "t", "r", "a", "m", "e">>, <<"d", "i", "m", "e">>, <<"a", "y", "u", "d", "a">>, <<"a", "y", "ú", "d", "a", "m", "e">>,
   <<"p", "r", "o", "d", "u", "c", "t", "o">>, <<"p", "r", "o", "d", "u", "c", "t", "o", "s">>, <<"o", "f", "e", "r", "t", "a">>, <<"o", "f", "e", "r", "t", "a", "s">>, <<"d", "e", "s", "c", "u", "e", "n", "t", "o">>, <<"c", "o", "m", "p", "r", "a", "r">>,
   <<"l", "a", "p", "t", "o", "p">>, <<"c", "e", "l", "u", "l", "a", "r">>, <<"t", "a", "b", "l", "e", "t">>, <<"t", "e", "l", "e", "v", "i", "s", "o", "r">>, <<"m", "o", "n", "i", "t", "o", "r">>, <<"a", "u", "d", "í", "f", "o", "n", "o", "s">>,
   <<"p", "r", "e", "c", "i", "o">>, <<"c", "u", "e", "s", "t", "a">>, <<"v", "a", "l", "o", "r">>, <<"c", "o", "s", "t", "ó">>, <<"d", "i", "s", "p", "o", "n", "i", "b", "l", "e">>, <<"t", "i", "e", "n", "e", "s">>}

tech_keywords ==
  {<<"s", "a", "m", "s", "u", "n", "g">>, <<"a", "p", "p", "l", "e">>, <<"i", "p", "h", "o", "n", "e">>, <<"l", "e", "n", "o", "v", "o">>, <<"h", "p">>, <<"d", "e", "l", "l">>, <<"a", "s", "u", "s">>, <<"a", "c", "e", "r">>,
   <<"p", "o", "r", "t", "á", "t", "i", "l">>, <<"p", "o", "r", "t", "a", "t", "i", "l">>, <<"l", "a", "p", "t", "o", "p">>, <<"n", "o", "t", "e", "b", "o", "o", "k">>, <<"s", "m", "a", "r", "t", "p", "h", "o", "n", "e">>, <<"c", "e", "l", "u", "l", "a", "r">>,
   <<"t", "a", "b", "l", "e", "t">>, <<"i", "p", "a", "d">>, <<"t", "v">>, <<"t", "e", "l", "e", "v", "i", "s", "o", "r">>, <<"m", "o", "n", "i", "t", "o", "r">>, <<"p", "r", "o", "y", "e", "c", "t", "o", "r">>, <<"c", "o", "n", "s", "o", "l", "a">>,
   <<"p", "l", "a", "y", "s", "t", "a", "t", "i", "o", "n">>, <<"x", "b", "o", "x">>, <<"n", "i", "n", "t", "e", "n", "d", "o">>, <<"a", "u", "d", "í", "f", "o", "n", "o", "s">>, <<"h", "e", "a", "d", "p", "h", "o", "n", "e", "s">>, <<"i", "m", "p", "r", "e", "s", "o", "r", "a">>}

_is_product_related_query(user_input) ==
  \E input_lower \in {Strip(Lower(user_input))} :
    IF input_lower \in conversation_phrases THEN FALSE
    ELSE IF ContainsAny(general_conversation_words, input_lower)
              /\ Len(Split(input_lower)) <= 4 THEN FALSE
    ELSE IF ContainsAny(search_intent_words, input_lower) THEN TRUE
    ELSE IF ContainsAny(tech_keywords, input_lower) THEN TRUE
    ELSE IF Len(Split(input_lower)) <= 2 THEN FALSE
    ELSE TRUE

mixed_phrases ==
  {<<"h", "o", "l", "a", " ", "m", "e", " ", "p", "o", "d", "r", "í", "a", "s", " ", "a", "y", "u", "d", "a", "r">>, <<"b", "u", "e", "n", "o", "s", " ", "d", "í", "a", "s", " ", "q", "u", "i", "e", "r", "o">>, <<"h", "o", "l", "a", " ", "b", "u", "s", "c", "o">>,
   <<"h", "o", "l", "a", " ", "n", "e", "c", "e", "s", "i", "t", "o">>, <<"h", "o", "l", "a", " ", "q", "u", "i", "e", "r", "o">>, <<"b", "u", "e", "n", "a", "s", " ", "t", "a", "r", "d", "e", "s", " ", "m", "e", " ", "r", "e", "c", "o", "m", "i", "e", "n", "d", "a", "s">>}

tech_specific ==
  {<<"r", "a", "m">>, <<"p", "r", "o", "c", "e", "s", "a", "d", "o", "r">>, <<"a", "l", "m", "a", "c", "e", "n", "a", "m", "i", "e", "n", "t", "o">>, <<"p", "a", "n", "t", "a", "l", "l", "a">>,
   <<"g", "b">>, <<"t", "b">>, <<"i", "n", "t", "e", "l">>, <<"a", "m", "d">>, <<"r", "y", "z", "e", "n">>, <<"c", "o", "r", "e">>, <<"n", "v", "i", "d", "i", "a">>}

\* in thousandths
_calculate_dynamic_threshold(user_input) ==
  IF ContainsAny(mixed_phrases, Lower(user_input)) THEN 400
  ELSE IF ContainsAny(tech_specific, Lower(user_input)) THEN 350
  ELSE 450

ChatTexts ==
  {<<"q", "u", "e", " ", "t", "i", "e", "n", "d", "a", "s", " ", "t", "i", "e", "n", "e", "s">>, <<"h", "o", "l", "a">>, <<"b", "u", "s", "c", "o", " ", "l", "a", "p", "t", "o", "p">>, <<"n", "e", "c", "e", "s", "i", "t", "o", " ", "u", "n", " ", "c", "e", "l", "u", "l", "a", "r", " ", "s", "a", "m", "s", "u", "n", "g", " ", "b", "a", "r", "a", "t", "o">>,
   <<"h", "o", "l", "a", " ", "b", "u", "s", "c", "o", " ", "u", "n", " ", "c", "e", "l", "u", "l", "a", "r", " ", "s", "a", "m", "s", "u", "n", "g">>, <<"p", "o", "r", "t", "a", "t", "i", "l", " ", "c", "o", "n", " ", "1", "6", " ", "g", "b", " ", "r", "a", "m">>}

ChatInputs == {TextInput(text) : text \in ChatTexts} \cup {NoneInput}

\* the two classifications of the texts tried, computed once
IsStoreQuery == [text \in ChatTexts |-> _is_store_related_query(text)]

IsProductQuery == [text \in ChatTexts |-> _is_product_related_query(text)]

WordCount == [text \in ChatTexts |-> Len(Split(text))]

\* threshold = self._calculate_dynamic_threshold(user_input), computed once
DynamicThreshold == [text \in ChatTexts |-> _calculate_dynamic_threshold(text)]

-----------------------------------------------------------------------------
(* TechChatbot: the responses.  A response is described by the statement   *)
(* that produced it and by whether it is None or the empty string; every   *)
(* literal and every f-string of the class is a non-empty string.          *)

Reply(kind) == [kind |-> kind, isNone |-> FALSE, empty |-> FALSE]

\* chat_completion.choices[0].message.content
Completion(llm) == [kind |-> "completion", isNone |-> llm.isNone, empty |-> llm.empty]

\* what the completion endpoint can do with a request: raise, or answer with
\* a content that is None, empty, or a text; of a text, the four things
\* _validate_response looks for in it
LLMRaises ==
  [raises |-> TRUE, isNone |-> FALSE, empty |-> FALSE, talks_about_products |-> FALSE,
   mentions_real_products |-> FALSE, mentions_real_stores |-> FALSE, store_words |-> FALSE]

LLMNone == [LLMRaises EXCEPT !.raises = FALSE, !.isNone = TRUE]

LLMEmpty == [LLMRaises EXCEPT !.raises = FALSE, !.empty = TRUE]

LLMTexts ==
  [raises : {FALSE}, isNone : {FALSE}, empty : {FALSE}, talks_about_products : BOOLEAN,
   mentions_real_products : BOOLEAN, mentions_real_stores : BOOLEAN, store_words : BOOLEAN]

LLMOutcomes == {LLMRaises, LLMNone, LLMEmpty} \cup LLMTexts

\* the endpoint is not called
NoLLM == LLMRaises

\* the greeting, or one of the four suggestions
_no_products_response(user_input) == Reply("no_products")

_has_relevant_products(user_input, product_info) ==
  IF product_info = << >> THEN FALSE
  ELSE \E relevant_count \in {Cardinality({i \in 1..Len(product_info) :
                                              product_info[i].similarity_score >= 450})} :
         IF relevant_count = 0 /\ Len(product_info) > 0 /\ WordCount[user_input] <= 2
         THEN TRUE
         ELSE relevant_count > 0

_fallback_response(user_input, product_info) ==
  IF product_info # << >> /\ IsProductQuery[user_input]
  THEN Reply("fallback_product")
  ELSE Reply("fallback_greeting")

\* for a response that is a string; response.lower() raises on None
_validate_response(llm, product_info) ==
  IF product_info = << >> THEN _no_products_response(<< >>)
  ELSE IF llm.talks_about_products /\ ~llm.mentions_real_products
  THEN _no_products_response(<< >>)
  ELSE IF llm.talks_about_products /\ ~llm.mentions_real_stores /\ llm.store_words
  THEN _no_products_response(<< >>)
  ELSE IF llm.mentions_real_products THEN Completion(llm)
  ELSE _no_products_response(<< >>)

generate_response(cl, user_input, product_info, llm) ==
  IF cl = "None" THEN _fallback_response(user_input, product_info)
  ELSE IF ~_has_relevant_products(user_input, product_info)
  THEN _no_products_response(user_input)
  ELSE IF llm.raises \/ llm.isNone THEN _fallback_response(user_input, product_info)
  ELSE _validate_response(llm, product_info)

_generate_conversational_response(cl, llm) ==
  IF cl = "None" \/ llm.raises THEN Reply("conversational_greeting")
  ELSE Completion(llm)

\* EmbeddingManager has no get_all_products_from_index: the except branch
_get_available_stores_info == Reply("store_info")

\* search_products(user_input, top_k=5, threshold=0.3), then the scores of at least 0.4
ChatProducts(idx, metadata, user_input, env) ==
  SelectSeq(SearchProducts(idx, metadata, user_input, 5, 300, env),
            LAMBDA p : p.similarity_score >= 400)

UserEntry(user_input, products_found) ==
  [type |-> "user", content |-> user_input, products_found |-> products_found]

AssistantEntry(response) == [type |-> "assistant", content |-> response]

\* conversation_history[-9:]
LastNine(history) ==
  IF Len(history) <= 9 THEN history ELSE SubSeq(history, Len(history) - 8, Len(history))

\* conversation_history[-10:]
LastTen(history) ==
  IF Len(history) <= 10 THEN history ELSE SubSeq(history, Len(history) - 9, Len(history))

\* the steps of chat that can raise, and the ones inside its try block
ChatSteps == {"classify", "search", "respond"}

ChatTryBlock == ChatSteps

\* the step of chat that raises: the classification of a value that is no
\* string, or the search
ChatFault(user_input, search_raises) ==
  IF user_input.isNone THEN "classify"
  ELSE IF IsProductQuery[user_input.text] /\ ~IsStoreQuery[user_input.text] /\ search_raises
  THEN "search"
  ELSE "none"

Apology == Reply("apology")

\* the response of chat and the history it leaves
ChatResult(history, cl, user_input, products, search_raises, llm) ==
  IF ChatFault(user_input, search_raises) # "none"
  THEN [response |-> Apology, conversation_history |-> history]
  ELSE IF IsStoreQuery[user_input.text]
  THEN [response |-> _get_available_stores_info,
        conversation_history |->
          history \o <<UserEntry(user_input, 0), AssistantEntry(_get_available_stores_info)>>]
  ELSE LET should_search == IsProductQuery[user_input.text] IN
       CHOOSE r \in
         {[response |-> response,
           conversation_history |->
             LastTen(history \o <<UserEntry(user_input,
                                            IF should_search THEN Len(products) ELSE 0),
                                  AssistantEntry(response)>>)] :
            response \in {IF ~should_search THEN _generate_conversational_response(cl, llm)
                          ELSE IF ~_has_relevant_products(user_input.text, products)
                          THEN _no_products_response(user_input.text)
                          ELSE generate_response(cl, user_input.text, products, llm)}} : TRUE

chat(user_input, products, search_raises, llm) ==
  /\ \E after \in {ChatResult(conversation_history, client, user_input, products,
                              search_raises, llm)} :
       /\ conversation_history' = after.conversation_history
       /\ ret' = [raised |-> ChatFault(user_input, search_raises)
                                \notin (ChatTryBlock \cup {"none"}),
                  value |-> after.response]
  /\ call' = [op |-> "chat", user_input |-> user_input, products |-> products,
              search_raises |-> search_raises, llm |-> llm]
  /\ UNCHANGED <<state, client, server>>

-----------------------------------------------------------------------------
(* A conversation: a chatbot, with or without an API client, over an index *)
(* that is loaded or not, is sent one message after another.               *)

\* the messages of a conversation
MaxChats == 2

\* an answer to a greeting: only whether it is None, empty or a text matters
PlainText ==
  [raises |-> FALSE, isNone |-> FALSE, empty |-> FALSE, talks_about_products |-> FALSE,
   mentions_real_products |-> FALSE, mentions_real_stores |-> FALSE, store_words |-> FALSE]

ConversationalOutcomes == {LLMRaises, LLMNone, LLMEmpty, PlainText}

ChatCatalogs == {<< >>, <<Desktop, Laptop>>}

ChatInit ==
  /\ \E c \in ChatCatalogs :
       /\ index = IF c = << >> THEN None ELSE IndexFlatIP(Encode(c))
       /\ product_metadata = [i \in 1..Len(c) |-> Metadata(c[i])]
       /\ index_file = IF c = << >> THEN Missing ELSE Written(Encode(c))
       /\ metadata_file = IF c = << >> THEN Missing ELSE Written([i \in 1..Len(c) |-> Metadata(c[i])])
       /\ embeddings_file = IF c = << >> THEN Missing ELSE Written(Encode(c))
  /\ client \in {"None", "Groq"}
  /\ conversation_history = << >>
  /\ NoServer
  /\ call = Idle
  /\ ret = [raised |-> FALSE, value |-> FALSE]

Chat ==
  /\ call = Idle
  /\ Len(conversation_history) < 2 * MaxChats
  /\ \E user_input \in ChatInputs :
       IF user_input.isNone \/ IsStoreQuery[user_input.text]
       THEN chat(user_input, << >>, FALSE, NoLLM)
       ELSE IF ~IsProductQuery[user_input.text]
       THEN \E llm \in (IF client = "None" THEN {NoLLM} ELSE ConversationalOutcomes) :
              chat(user_input, << >>, FALSE, llm)
       ELSE \/ chat(user_input, << >>, TRUE, NoLLM)
            \/ \E env \in SearchEnvs(index) :
                 \E products \in {ChatProducts(index, product_metadata, user_input.text, env)} :
                   \E llm \in (IF client = "None"
                                    \/ ~_has_relevant_products(user_input.text, products)
                                THEN {NoLLM} ELSE LLMOutcomes) :
                     chat(user_input, products, FALSE, llm)

ChatReturned ==
  /\ call.op = "chat"
  /\ call' = Idle
  /\ ret' = [raised |-> FALSE, value |-> FALSE]
  /\ UNCHANGED <<state, client, server, conversation_history>>

ChatNext == Chat \/ ChatReturned

ChatSpec == ChatInit /\ [][ChatNext]_vars

-----------------------------------------------------------------------------
(* The history of one chatbot: chat, clear_history and get_chat_stats in    *)
(* any order.                                                               *)

clear_history ==
  /\ conversation_history' = << >>
  /\ call' = [op |-> "clear_history"]
  /\ ret' = [raised |-> FALSE, value |-> FALSE]
  /\ UNCHANGED <<state, client, server>>

\* self.conversation_history[-2]["products_found"] raises KeyError on an entry
\* that has no such key
StatsFault(history) ==
  Len(history) >= 2 /\ "products_found" \notin DOMAIN history[Len(history) - 1]

ChatStats(history) ==
  [total_messages |-> Len(history),
   user_messages |-> Cardinality({i \in 1..Len(history) : history[i].type = "user"}),
   assistant_messages |-> Cardinality({i \in 1..Len(history) : history[i].type = "assistant"}),
   last_products_found |->
     IF Len(history) >= 2 /\ ~StatsFault(history)
     THEN history[Len(history) - 1].products_found ELSE 0]

get_chat_stats ==
  /\ call' = [op |-> "get_chat_stats"]
  /\ ret' = [raised |-> StatsFault(conversation_history),
             value |-> ChatStats(conversation_history)]
  /\ UNCHANGED <<state, client, server, conversation_history>>

\* a conversation is followed until its history holds this many exchanges
MaxExchanges == 6

\* a store question, a greeting, a product request, and a value that is no string
HistoryInputs ==
  {TextInput(<<"q", "u", "e", " ", "t", "i", "e", "n", "d", "a", "s", " ", "t", "i", "e", "n", "e", "s">>), TextInput(<<"h", "o", "l", "a">>), TextInput(<<"b", "u", "s", "c", "o", " ", "l", "a", "p", "t", "o", "p">>), NoneInput}

\* the search finds every product with the highest score
HistoryEnv(idx) ==
  [sim |-> [v \in Range(idx.vectors) |-> CHOOSE s \in Scores : \A t \in Scores : t <= s],
   tie_ascending |-> FALSE, encode_raises |-> FALSE, index_raises |-> FALSE]

HistoryInit ==
  /\ index = IndexFlatIP(Encode(<<Laptop>>))
  /\ product_metadata = <<Metadata(Laptop)>>
  /\ index_file = Written(Encode(<<Laptop>>))
  /\ metadata_file = Written(<<Metadata(Laptop)>>)
  /\ embeddings_file = Written(Encode(<<Laptop>>))
  /\ client = "None"
  /\ conversation_history = << >>
  /\ NoServer
  /\ call = Idle
  /\ ret = [raised |-> FALSE, value |-> FALSE]

HistoryChat ==
  /\ call = Idle
  /\ Len(conversation_history) < 2 * MaxExchanges
  /\ \E user_input \in HistoryInputs :
       IF user_input.isNone \/ ~IsProductQuery[user_input.text]
          \/ IsStoreQuery[user_input.text]
       THEN chat(user_input, << >>, FALSE, NoLLM)
       ELSE \/ chat(user_input, << >>, TRUE, NoLLM)
            \/ chat(user_input,
                    ChatProducts(index, product_metadata, user_input.text, HistoryEnv(index)),
                    FALSE, NoLLM)

ClearHistory == call = Idle /\ clear_history

GetChatStats == call = Idle /\ get_chat_stats

HistoryReturned ==
  /\ call.op \in {"chat", "clear_history", "get_chat_stats"}
  /\ call' = Idle
  /\ ret' = [raised |-> FALSE, value |-> FALSE]
  /\ UNCHANGED <<state, client, server, conversation_history>>

HistoryNext == HistoryChat \/ ClearHistory \/ GetChatStats \/ HistoryReturned

HistorySpec == HistoryInit /\ [][HistoryNext]_vars

-----------------------------------------------------------------------------
(* views.py: the requests of the chat endpoints, served by threads of one  *)
(* process that share _chatbot_instances.  A request is a record of its    *)
(* view, its session_id, its position and its locals; a step of a request  *)
(* runs up to the next point at which another thread can run.              *)

\* what the views leave alone: the engine and the chatbot used without them
engine == <<state, client, conversation_history, call, ret>>

\* the requests served at once
MaxRequests == 2

Views == {"chatWithChatbotWithoutLogin", "clearChatHistory"}

\* TechChatbot(api_key): self.conversation_history = []
NewChatbot(session_id) == [session_id |-> session_id, conversation_history |-> << >>]

Request(view, session_id) ==
  [view |-> view, session_id |-> session_id,
   pc |-> IF view = "clearChatHistory" THEN "lookup" ELSE "check",
   chatbot |-> Absent, sliced |-> << >>]

Receive(view, session_id) ==
  /\ Len(requests) < MaxRequests
  /\ requests' = Append(requests, Request(view, session_id))
  /\ UNCHANGED <<_chatbot_instances, chatbots, GROQ_API_KEY, engine>>

\* get_chatbot_for_session: if session_id not in _chatbot_instances
CheckSession(r) ==
  /\ requests[r].pc = "check"
  /\ requests' = [requests EXCEPT ![r].pc =
                    IF _chatbot_instances[requests[r].session_id] = Absent
                    THEN "create" ELSE "return"]
  /\ UNCHANGED <<_chatbot_instances, chatbots, GROQ_API_KEY, engine>>

\* api_key = os.getenv('GROQ_API_KEY'); raise ValueError without it, else
\* construct TechChatbot(api_key)
CreateChatbot(r) ==
  /\ requests[r].pc = "create"
  /\ IF ~GROQ_API_KEY
     THEN /\ requests' = [requests EXCEPT ![r].pc = "error"]
          /\ UNCHANGED chatbots
     ELSE /\ chatbots' = Append(chatbots, NewChatbot(requests[r].session_id))
          /\ requests' = [requests EXCEPT ![r].pc = "store", ![r].chatbot = Len(chatbots) + 1]
  /\ UNCHANGED <<_chatbot_instances, GROQ_API_KEY, engine>>

\* _chatbot_instances[session_id] = <the new chatbot>
StoreChatbot(r) ==
  /\ requests[r].pc = "store"
  /\ _chatbot_instances' =
       [_chatbot_instances EXCEPT ![requests[r].session_id] = requests[r].chatbot]
  /\ requests' = [requests EXCEPT ![r].pc = "return"]
  /\ UNCHANGED <<chatbots, GROQ_API_KEY, engine>>

\* return _chatbot_instances[session_id]
ReturnChatbot(r) ==
  /\ requests[r].pc = "return"
  /\ requests' = [requests EXCEPT ![r].pc = "chat",
                                  ![r].chatbot = _chatbot_instances[requests[r].session_id]]
  /\ UNCHANGED <<_chatbot_instances, chatbots, GROQ_API_KEY, engine>>

\* chatbot.chat(user_message): the two appends; the entries carry the request
AppendEntries(r) ==
  /\ requests[r].pc = "chat"
  /\ chatbots' =
       [chatbots EXCEPT ![requests[r].chatbot].conversation_history =
          @ \o <<UserEntry(r, 0), AssistantEntry(r)>>]
  /\ requests' = [requests EXCEPT ![r].pc = "slice"]
  /\ UNCHANGED <<_chatbot_instances, GROQ_API_KEY, engine>>

\* the right-hand side of self.conversation_history = self.conversation_history[-10:]
SliceHistory(r) ==
  /\ requests[r].pc = "slice"
  /\ requests' = [requests EXCEPT
                    ![r].pc = "assign",
                    ![r].sliced = LastTen(chatbots[requests[r].chatbot].conversation_history)]
  /\ UNCHANGED <<_chatbot_instances, chatbots, GROQ_API_KEY, engine>>

\* the assignment of the slice
AssignHistory(r) ==
  /\ requests[r].pc = "assign"
  /\ chatbots' = [chatbots EXCEPT ![requests[r].chatbot].conversation_history =
                    requests[r].sliced]
  /\ requests' = [requests EXCEPT ![r].pc = "done", ![r].sliced = << >>]
  /\ UNCHANGED <<_chatbot_instances, GROQ_API_KEY, engine>>

\* clearChatHistory: if session_id in _chatbot_instances
LookupSession(r) ==
  /\ requests[r].pc = "lookup"
  /\ requests' = [requests EXCEPT ![r].pc =
                    IF _chatbot_instances[requests[r].session_id] = Absent
                    THEN "done" ELSE "clear"]
  /\ UNCHANGED <<_chatbot_instances, chatbots, GROQ_API_KEY, engine>>

\* _chatbot_instances[session_id].clear_history()
ClearSession(r) ==
  /\ requests[r].pc = "clear"
  /\ chatbots' =
       [chatbots EXCEPT ![_chatbot_instances[requests[r].session_id]].conversation_history =
          << >>]
  /\ requests' = [requests EXCEPT ![r].pc = "cleared",
                                  ![r].chatbot = _chatbot_instances[requests[r].session_id]]
  /\ UNCHANGED <<_chatbot_instances, GROQ_API_KEY, engine>>

ViewsInit ==
  /\ index = None
  /\ product_metadata = << >>
  /\ index_file = Missing
  /\ metadata_file = Missing
  /\ embeddings_file = Missing
  /\ client = "None"
  /\ conversation_history = << >>
  /\ call = Idle
  /\ ret = [raised |-> FALSE, value |-> FALSE]
  /\ _chatbot_instances = [s \in Sessions |-> Absent]
  /\ chatbots = << >>
  /\ requests = << >>
  /\ GROQ_API_KEY \in BOOLEAN

Arrive == \E view \in Views, session_id \in Sessions : Receive(view, session_id)

Check == \E r \in 1..Len(requests) : CheckSession(r)

Create == \E r \in 1..Len(requests) : CreateChatbot(r)

Store == \E r \in 1..Len(requests) : StoreChatbot(r)

Return == \E r \in 1..Len(requests) : ReturnChatbot(r)

AppendHistory == \E r \in 1..Len(requests) : AppendEntries(r)

Slice == \E r \in 1..Len(requests) : SliceHistory(r)

Assign == \E r \in 1..Len(requests) : AssignHistory(r)

Lookup == \E r \in 1..Len(requests) : LookupSession(r)

Clear == \E r \in 1..Len(requests) : ClearSession(r)

ViewsNext ==
  \/ Arrive \/ Check \/ Create \/ Store \/ Return
  \/ AppendHistory \/ Slice \/ Assign \/ Lookup \/ Clear

ViewsSpec == ViewsInit /\ [][ViewsNext]_vars

-----------------------------------------------------------------------------
(* Claims about the index lifecycle (specification Spec) *)

\* row i of the index is the vector of the product metadata entry i describes
Aligned(idx, metadata) ==
  /\ Len(metadata) = ntotal(idx)
  /\ \A i \in 1..Len(metadata) : metadata[i].id = idx.vectors[i]

\* C1: whenever the in-memory index is not None, product_metadata has as many
\* entries as the index has vectors, and entry i describes the product whose
\* vector is row i.
C1_IndexAlignment == ~index.isNone => Aligned(index, product_metadata)

\* C8: a build that finds the store empty returns False, writes none of the
\* three files and leaves the index and product_metadata as they were.
C8_EmptyCatalog ==
  [][(call'.op = "create_embeddings_from_db" /\ call'.empty /\ call'.fault = "none")
       => (ret'.value = FALSE /\ state' = state)]_vars

\* a build found the store empty while an index was loaded and persisted
C8_Witness ==
  /\ call.op = "create_embeddings_from_db" /\ call.empty /\ call.fault = "none"
  /\ ret.value = FALSE
  /\ ~index.isNone /\ product_metadata # << >>
  /\ index_file.state = "ok"

AllWrittenFromOneBuild ==
  /\ index_file.state = "ok" /\ metadata_file.state = "ok" /\ embeddings_file.state = "ok"
  /\ index_file.data = index.vectors
  /\ embeddings_file.data = index.vectors
  /\ metadata_file.data = product_metadata
  /\ product_metadata # << >>
  /\ Aligned(index, product_metadata)

\* C9: create_embeddings_from_db never raises; it returns False whenever the
\* fetch, the encoding, the index construction or one of the three writes
\* fails, and True only when the three files were written and
\* product_metadata was replaced by the new metadata.
C9_BuildReportsFailure ==
  call.op = "create_embeddings_from_db" =>
    /\ ~ret.raised
    /\ ret.value \in BOOLEAN
    /\ (call.fault # "none" => ret.value = FALSE)
    /\ (ret.value = TRUE => AllWrittenFromOneBuild)

\* a build that failed while writing the metadata file returned False
C9_Witness ==
  /\ call.op = "create_embeddings_from_db" /\ call.fault = "write_metadata"
  /\ ret.value = FALSE /\ ~ret.raised

\* C10: whenever create_embeddings_from_db returns False, the in-memory
\* index, product_metadata and the three persisted files are as before the
\* call.
C10_BuildFailsAtomically ==
  [][(call'.op = "create_embeddings_from_db" /\ ret'.value = FALSE)
       => state' = state]_vars

-----------------------------------------------------------------------------
(* Claims about the searches (specification SearchSpec) *)

IsSearch == call.op = "search_products"

\* the encoder or the index raised in the call
Failed == call.env.encode_raises \/ call.env.index_raises

\* the same search_products call at another threshold
SearchAt(threshold) ==
  SearchProducts(index, product_metadata, call.query, call.top_k, threshold, call.env)

EffectiveThreshold == adjusted_threshold(call.query, call.threshold)

\* the rows that have both a vector and a metadata entry
IndexedRows == 1..Min(ntotal(index), Len(product_metadata))

\* the neighbours the index retrieved for the call, nearest first
Neighbours ==
  IndexSearch(index, call.env.sim, Min(call.top_k * 3, ntotal(index)), call.env.tie_ascending)

\* neighbour k has a metadata entry and a raw score at or above the threshold
Passes(k) ==
  /\ Neighbours[k] <= Len(product_metadata)
  /\ RawScore(index, call.env.sim, Neighbours[k]) >= EffectiveThreshold

\* neighbour k passes and no earlier passing neighbour has its lowercased name
Survives(k) ==
  /\ Passes(k)
  /\ \A j \in 1..(k - 1) :
       Passes(j) => Lower(product_metadata[Neighbours[j]].name)
                      # Lower(product_metadata[Neighbours[k]].name)

MainSurvivors ==
  {k \in 1..Len(Neighbours) : Survives(k) /\ product_metadata[Neighbours[k]].is_main_product}

AccessorySurvivors ==
  {k \in 1..Len(Neighbours) : Survives(k) /\ ~product_metadata[Neighbours[k]].is_main_product}

NoDuplicateNames(results) ==
  \A i, j \in 1..Len(results) : i < j => Lower(results[i].name) # Lower(results[j].name)

\* C2: no two entries of a list returned by search_products or by
\* search_by_filters (with a query or without) have the same lowercased name
\* (stated for an index whose rows and metadata entries are aligned).
C2_Deduplication ==
  (call.op \in {"search_products", "search_by_filters"} /\ Aligned(index, product_metadata))
    => NoDuplicateNames(ret.value)

MainRowsAtOrAboveThreshold ==
  {i \in IndexedRows : /\ product_metadata[i].is_main_product
                       /\ RawScore(index, call.env.sim, i) >= EffectiveThreshold}

AllMain(results) == \A i \in 1..Len(results) : results[i].is_main_product

\* C3 as claimed: if at least top_k indexed entries flagged is_main_product
\* have a raw score at or above the effective threshold, search_products
\* returns no entry whose flag is false.
C3_MainPrioritization ==
  (IsSearch /\ Cardinality(MainRowsAtOrAboveThreshold) >= call.top_k) => AllMain(ret.value)

\* C3 as amended: if at least top_k main-category entries are among the
\* min(3 * top_k, ntotal) retrieved neighbours, have a raw score at or above
\* the effective threshold and are the first such neighbour of their
\* lowercased name, search_products returns no entry whose flag is false.
C3_MainPrioritizationOfSurvivors ==
  (IsSearch /\ ~Failed /\ ~index.isNone /\ product_metadata # << >>
     /\ Cardinality(MainSurvivors) >= call.top_k)
    => AllMain(ret.value) /\ Len(ret.value) = call.top_k

\* top_k main products and an accessory survived, and the accessory was left out
C3_Witness ==
  /\ IsSearch /\ ~Failed /\ ~index.isNone /\ product_metadata # << >>
  /\ Cardinality(MainSurvivors) >= call.top_k
  /\ AccessorySurvivors # {}
  /\ Len(ret.value) = call.top_k

\* C4: for a fixed index, query and top_k, a higher threshold never returns
\* more entries than a lower one.
C4_CountMonotone ==
  IsSearch =>
    \A t2 \in Thresholds : t2 > call.threshold => Len(SearchAt(t2)) <= Len(ret.value)

\* a higher threshold returned fewer entries, and some
C4_Witness ==
  /\ IsSearch
  /\ \E t2 \in Thresholds :
       t2 > call.threshold /\ Len(SearchAt(t2)) < Len(ret.value) /\ SearchAt(t2) # << >>

MainCount(results) == Cardinality({i \in 1..Len(results) : results[i].is_main_product})

\* C5 as claimed: every product returned at a higher threshold is also
\* returned at a lower one.
C5_ThresholdSuperset ==
  IsSearch =>
    \A t2 \in Thresholds : t2 > call.threshold =>
      \A r \in Range(SearchAt(t2)) : r \in Range(ret.value)

\* C5 as amended: every main-category product returned at a higher threshold
\* is also returned at a lower one, and an accessory returned at the higher
\* threshold is missing at the lower one only when the result there holds
\* more main-category products (they took its place).
C5_ThresholdSupersetOfMain ==
  IsSearch =>
    \A t2 \in Thresholds : t2 > call.threshold =>
      \A higher \in {SearchAt(t2)} :
        \A r \in Range(higher) :
          \/ r \in Range(ret.value)
          \/ ~r.is_main_product /\ MainCount(ret.value) > MainCount(higher)

\* a main product is returned at both thresholds, and an accessory returned
\* at the higher one gave its place to a main product at the lower one
C5_Witness ==
  /\ IsSearch
  /\ \E t2 \in Thresholds :
       /\ t2 > call.threshold
       /\ \E r \in Range(SearchAt(t2)) : r.is_main_product /\ r \in Range(ret.value)
       /\ \E r \in Range(SearchAt(t2)) : ~r.is_main_product /\ r \notin Range(ret.value)

\* an entry meets every filter supplied
Satisfies(r, f) ==
  /\ f.category # << >> => Contains(Lower(f.category), Lower(r.category))
  /\ f.brand # << >> => Contains(Lower(f.brand), Lower(r.brand))
  /\ f.min_price.given => r.price >= f.min_price.value
  /\ f.max_price.given => r.price <= f.max_price.value
  /\ f.with_discount => r.discount_percent \notin {"0%", "0", "Sin descuento"}

NoFilters ==
  [category |-> << >>, brand |-> << >>, min_price |-> NoPrice, max_price |-> NoPrice,
   with_discount |-> FALSE]

\* C6: every entry search_by_filters returns meets all the filters supplied
\* at once (category and brand as case-insensitive substrings, the price
\* within the inclusive bounds, a discount when with_discount is set), and
\* filters left out constrain nothing.
C6_FilterConjunction ==
  call.op = "search_by_filters" =>
    /\ \A i \in 1..Len(ret.value) : Satisfies(ret.value[i], call.filters)
    /\ (call.filters = NoFilters /\ call.query = << >>)
         => ret.value = Take(product_metadata, call.top_k)

\* every filter was supplied, an entry met them all and another was dropped
C6_Witness ==
  /\ call.op = "search_by_filters"
  /\ call.filters.category # << >> /\ call.filters.brand # << >>
  /\ call.filters.min_price.given /\ call.filters.max_price.given
  /\ call.filters.with_discount
  /\ call.query = << >>
  /\ ret.value # << >>
  /\ Len(ret.value) < Len(product_metadata)

\* the position in the result of the entry of row i, 0 when it is not returned
Position(i) ==
  IF \E k \in 1..Len(ret.value) : ret.value[k].id = product_metadata[i].id
  THEN CHOOSE k \in 1..Len(ret.value) : ret.value[k].id = product_metadata[i].id
  ELSE 0

\* C7: on a portable query, of a Portátiles product and a Computadores de
\* Escritorio product with the same raw score at or above the effective
\* threshold, the desktop is never returned without the portable one, and
\* the portable one comes strictly first when both are returned (stated for
\* an index whose rows and metadata entries are aligned).
C7_PortableBeforeDesktop ==
  (IsSearch /\ IsPortableQuery(call.query) /\ Aligned(index, product_metadata)) =>
    \A i, j \in IndexedRows :
      ( /\ product_metadata[i].category = <<"P", "o", "r", "t", "á", "t", "i", "l", "e", "s">>
        /\ product_metadata[j].category = <<"C", "o", "m", "p", "u", "t", "a", "d", "o", "r", "e", "s", " ", "d", "e", " ", "E", "s", "c", "r", "i", "t", "o", "r", "i", "o">>
        /\ RawScore(index, call.env.sim, i) = RawScore(index, call.env.sim, j)
        /\ RawScore(index, call.env.sim, i) >= EffectiveThreshold )
      => (Position(j) > 0 => (Position(i) > 0 /\ Position(i) < Position(j)))

Unloaded == index.isNone \/ product_metadata = << >>

\* C12: search_products never raises, whatever the query and whether the
\* encoder or the index fails, never changes the index or product_metadata,
\* and returns the empty list when the index is None or product_metadata is
\* empty.
C12_SearchFailsClosed ==
  [][call'.op = "search_products" =>
       /\ ~ret'.raised
       /\ index' = index /\ product_metadata' = product_metadata
       /\ Unloaded => ret'.value = << >>
       /\ Failed' => ret'.value = << >>]_vars

\* a search on an object whose index is None was answered with the empty list
C12_Witness ==
  /\ IsSearch /\ index.isNone
  /\ ~ret.raised /\ ret.value = << >>

\* the entries of the metadata that meet the filters of the call, in
\* metadata order
MatchingMetadata ==
  LET Matches(r) == Satisfies(r, call.filters)
  IN  SelectSeq(product_metadata, Matches)

\* C13: without a query search_by_filters returns the first min(top_k, n)
\* of all the n metadata entries that meet the filters supplied, in metadata
\* order (stated for an index whose rows and metadata entries are aligned).
C13_FullCandidatePool ==
  (call.op = "search_by_filters" /\ call.query = << >> /\ Aligned(index, product_metadata))
    => ret.value = Take(MatchingMetadata, call.top_k)

\* C14: search_products and search_by_filters return at most top_k entries.
C14_BoundedResult ==
  call.op \in {"search_products", "search_by_filters"} => Len(ret.value) <= call.top_k

\* more than top_k entries met the filters and exactly top_k were returned
C14_Witness ==
  /\ call.op = "search_by_filters" /\ call.query = << >>
  /\ Len(MatchingMetadata) > call.top_k
  /\ Len(ret.value) = call.top_k


\* the lowercased names of the indexed products whose raw score is at or
\* above the effective threshold
NamesAtOrAboveThreshold ==
  {Lower(product_metadata[i].name) :
     i \in {r \in IndexedRows : RawScore(index, call.env.sim, r) >= EffectiveThreshold}}

\* C21: if at least top_k indexed products with pairwise distinct lowercased
\* names have a raw score at or above the effective threshold,
\* search_products returns exactly top_k entries (stated for an index whose
\* rows and metadata entries are aligned, and a call in which neither the
\* encoder nor the index raises).
C21_OverFetchFillsQuota ==
  (IsSearch /\ ~Failed /\ Aligned(index, product_metadata)
     /\ Cardinality(NamesAtOrAboveThreshold) >= call.top_k)
    => Len(ret.value) = call.top_k

NonIncreasing(results) ==
  \A i, j \in 1..Len(results) :
    i < j => results[i].similarity_score >= results[j].similarity_score

\* C22: the list search_products returns is in non-increasing order of the
\* attached (possibly penalized) similarity_score, and so is the list
\* search_by_filters returns for a query.
C22_ResultOrder ==
  /\ IsSearch => NonIncreasing(ret.value)
  /\ (call.op = "search_by_filters" /\ call.query # << >>) => NonIncreasing(ret.value)

\* an accessory of higher score is returned before a main product, which
\* was put into the result first
C22_Witness ==
  /\ IsSearch /\ Len(ret.value) = 2
  /\ ~ret.value[1].is_main_product /\ ret.value[2].is_main_product
  /\ ret.value[1].similarity_score > ret.value[2].similarity_score

\* the place among the retrieved neighbours of the row an entry was copied from
RetrievalRank(r) ==
  CHOOSE k \in 1..Len(Neighbours) : product_metadata[Neighbours[k]].id = r.id

\* C23: any two entries of a search_products result with equal final
\* similarity_score appear in the order in which the index retrieved them,
\* also when one is a main-category product and the other an accessory
\* (stated for an index whose rows and metadata entries are aligned).
C23_TieBreak ==
  (IsSearch /\ ~Failed /\ Aligned(index, product_metadata)) =>
    \A i, j \in 1..Len(ret.value) :
      (i < j /\ ret.value[i].similarity_score = ret.value[j].similarity_score)
        => RetrievalRank(ret.value[i]) < RetrievalRank(ret.value[j])

\* C24: every entry search_products returns carries a similarity_score at or
\* above the effective threshold of the call, also after the portability
\* penalty has been applied.
C24_ScoresAtOrAboveThreshold ==
  IsSearch =>
    \A i \in 1..Len(ret.value) : ret.value[i].similarity_score >= EffectiveThreshold
\* the step is a search
SearchStep == call'.op \in {"search_products", "search_by_filters"}

\* C29: after any sequence of search_products and search_by_filters calls,
\* product_metadata and the index are unchanged: the similarity_score and the
\* penalty are written to per-call copies, and no indexed entry ever gains a
\* similarity_score field.
C29_SearchLeavesIndex ==
  /\ [][SearchStep => (product_metadata' = product_metadata /\ index' = index)]_vars
  /\ [](\A i \in 1..Len(product_metadata) :
          "similarity_score" \notin DOMAIN product_metadata[i])

\* a search with a query has returned a product with its score, the penalty
\* applied, and the entry it was copied from is still in product_metadata
C29_Witness ==
  /\ call.op \in {"search_products", "search_by_filters"}
  /\ \E i \in 1..Len(ret.value), j \in 1..Len(product_metadata) :
       /\ "similarity_score" \in DOMAIN ret.value[i]
       /\ ret.value[i].similarity_score = Penalized(600)
       /\ ret.value[i] = Scored(product_metadata[j], 600, call.query)

\* the row of product_metadata a returned entry was copied from
RowOf(entry) == CHOOSE j \in 1..Len(product_metadata) : product_metadata[j].id = entry.id

\* C30: every product for which _create_product_text emits "Es portátil: no"
\* has its score multiplied by 0.7 by search_products on a laptop query, and
\* no product that received "Es portátil: sí" from its category is penalized.
C30_PortabilityAgrees ==
  (call.op = "search_products" /\ IsPortableQuery(call.query)) =>
    \A i \in 1..Len(ret.value) :
      \E entry \in {ret.value[i]} :
        \E raw \in {RawScore(index, call.env.sim, RowOf(entry))} :
          /\ <<"E", "s", " ", "p", "o", "r", "t", "á", "t", "i", "l", ":", " ", "n", "o">> \in Range(PortabilityParts(entry.name, entry.category))
               => entry.similarity_score = Penalized(raw)
          /\ Contains(<<"p", "o", "r", "t", "á", "t", "i", "l">>, Lower(entry.category))
               => entry.similarity_score = raw

-----------------------------------------------------------------------------
(* Claims about loading (specification LoadSpec) *)

Loaded == call.op \in {"__init__", "_load_or_create_index"}

\* C11: after _load_or_create_index returns, whatever the persisted files
\* hold, the index is None exactly when product_metadata is empty, and when
\* reading the index file or the metadata file raised, the index is None and
\* product_metadata is the empty list.
C11_LoadNeverHalfPopulated ==
  Loaded =>
    /\ index.isNone <=> product_metadata = << >>
    /\ call.fault # "none" => (index.isNone /\ product_metadata = << >>)

-----------------------------------------------------------------------------
(* Claims about the methods that compute a value (specification FunctionSpec) *)

laptop_expansion == <<"p", "o", "r", "t", "á", "t", "i", "l", " ", "l", "a", "p", "t", "o", "p", " ", "c", "o", "m", "p", "u", "t", "a", "d", "o", "r", " ", "n", "o", "t", "e", "b", "o", "o", "k", " ", "e", "s", " ", "p", "o", "r", "t", "á", "t", "i", "l", " ", "s", "í">>

\* C15: _clean_query("busco un portatil") has neither the token "busco" nor
\* the token "un" and has the laptop expansion appended; for every query, no
\* token of the lowercased query that is a stopword is left in the cleaned
\* part, and the expansion of every key found in the cleaned part is appended.
C15_CleanQuery ==
  call.op = "_clean_query" =>
    /\ call.query = <<"b", "u", "s", "c", "o", " ", "u", "n", " ", "p", "o", "r", "t", "a", "t", "i", "l">> =>
         /\ <<"b", "u", "s", "c", "o">> \notin Range(Split(ret.value))
         /\ <<"u", "n">> \notin Range(Split(ret.value))
         /\ Contains(<<" ">> \o laptop_expansion, ret.value)
    /\ \A word \in Range(Split(Lower(call.query))) :
         word \in stopwords => word \notin Range(Split(ret.value))
    /\ \A i \in 1..Len(query_expansions) :
         Contains(query_expansions[i][1], CleanedQuery(call.query))
           => Contains(<<" ">> \o query_expansions[i][2], ret.value)

\* C17: normalizing a normalized category changes nothing, whatever the raw
\* category was, and every label of the mapping table normalizes to itself.
C17_NormalizationIdempotent ==
  call.op = "_normalize_category" =>
    /\ _normalize_category(ret.value) = ret.value
    /\ call.category \in canonical_labels => ret.value = call.category

\* a key in capitals and between spaces was normalized to its label
C17_Witness ==
  /\ call.op = "_normalize_category"
  /\ call.category = <<" ", "P", "O", "R", "T", "A", "T", "I", "L", "E", "S", " ">>
  /\ ret.value = <<"P", "o", "r", "t", "á", "t", "i", "l", "e", "s">>

\* a path of the table, or a fallback keyword, is in the url
KnownUrl(url) ==
  \/ \E i \in 1..Len(url_category_map) : Contains(url_category_map[i][1], url)
  \/ \E i \in 1..Len(url_fallbacks) : Contains(url_fallbacks[i][1], url)

\* C19: extract_category_from_url of a URL containing a path of the category
\* table returns the category mapped to that path; a URL with no path of the
\* table and no fallback keyword gives 'Electrónicos'; an empty or None URL
\* gives 'Sin categoría'.
C19_CategoryFromUrl ==
  call.op = "extract_category_from_url" =>
    IF call.url.isNone \/ call.url.text = << >> THEN ret.value = <<"S", "i", "n", " ", "c", "a", "t", "e", "g", "o", "r", "í", "a">>
    ELSE /\ \A i \in 1..Len(url_category_map) :
              Contains(url_category_map[i][1], call.url.text)
                => ret.value = url_category_map[i][2]
         /\ ~KnownUrl(call.url.text) => ret.value = <<"E", "l", "e", "c", "t", "r", "ó", "n", "i", "c", "o", "s">>

\* C20: _create_product_text never raises, and whenever building the text
\* fails internally it returns the product's raw name, a string.
C20_ProductTextNeverFails ==
  call.op = "_create_product_text" =>
    /\ ~ret.raised
    /\ ~ret.value.isNone
    /\ ProductTextFault(call.product) => ret.value = call.product.name

-----------------------------------------------------------------------------
(* Claims about the statistics (specification StatsSpec) *)

\* the entries whose discount label is none of the labels of no discount
EntriesWithDiscount ==
  {i \in 1..Len(product_metadata) :
     product_metadata[i].discount_percent \notin {"0%", "0", "Sin descuento"}}

\* C16: on a non-empty metadata list get_stats reports total_products equal
\* to the number of entries and products_with_discount equal to the number
\* of entries with a non-zero discount, never more than total_products; 3
\* of 10 gives products_with_discount 3 and discount_percentage "30.0%".
C16_DiscountStatistics ==
  (call.op = "get_stats" /\ product_metadata # << >>) =>
    /\ ret.value.total_products = Len(product_metadata)
    /\ ret.value.products_with_discount = Cardinality(EntriesWithDiscount)
    /\ ret.value.products_with_discount <= ret.value.total_products
    /\ (Len(product_metadata) = 10 /\ Cardinality(EntriesWithDiscount) = 3)
         => ret.value.discount_percentage = <<"3", "0", ".", "0", "%">>

\* the statistics of ten products, three of them with a discount
C16_Witness ==
  /\ call.op = "get_stats"
  /\ Len(product_metadata) = 10 /\ Cardinality(EntriesWithDiscount) = 3
  /\ ret.value.products_with_discount = 3
  /\ ret.value.discount_percentage = <<"3", "0", ".", "0", "%">>

-----------------------------------------------------------------------------
(* Claims about the chatbot (specification ChatSpec) *)

\* C18: chat returns a non-empty response string and never raises, for every
\* input and for every failure of the product search or of the LLM call.
C18_ChatAlwaysAnswers ==
  call.op = "chat" => (~ret.raised /\ ~ret.value.isNone /\ ~ret.value.empty)

\* the call is a chat with a product-related input, and its search returned
ProductChat ==
  /\ call.op = "chat" /\ ~call.user_input.isNone /\ ~call.search_raises
  /\ ~IsStoreQuery[call.user_input.text] /\ IsProductQuery[call.user_input.text]

\* C25: for every product-related input, every product chat keeps after
\* searching has a similarity_score at or above the value
\* _calculate_dynamic_threshold returns for that input.
C25_DynamicCutoff ==
  ProductChat =>
    \A i \in 1..Len(call.products) :
      call.products[i].similarity_score >= DynamicThreshold[call.user_input.text]

\* C26: after any sequence of chat and clear_history calls,
\* conversation_history holds at most 10 entries.
C26_BoundedHistory == Len(conversation_history) <= 10

\* user entry, assistant entry, user entry, ... and as many of one as of the other
Alternates(history) ==
  /\ Len(history) % 2 = 0
  /\ \A i \in 1..Len(history) :
       history[i].type = (IF i % 2 = 1 THEN "user" ELSE "assistant")

\* get_chat_stats has answered with equal counts and with the products_found
\* of the most recent user entry
StatsAgree ==
  /\ ~ret.raised
  /\ ret.value.total_messages = Len(conversation_history)
  /\ ret.value.user_messages = ret.value.assistant_messages
  /\ ret.value.last_products_found =
       (IF conversation_history = << >> THEN 0
        ELSE conversation_history[Len(conversation_history) - 1].products_found)

\* the step is a chat call that fails
FailingChat ==
  /\ call'.op = "chat"
  /\ ChatFault(call'.user_input, call'.search_raises) # "none"

\* C27: after any sequence of chat and clear_history calls,
\* conversation_history has even length and alternates user entry, assistant
\* entry starting with a user entry, so that get_chat_stats reports
\* user_messages = assistant_messages and reads last_products_found from the
\* most recent user entry; a chat call that fails adds no entry.
C27_HistoryShape ==
  /\ [](Alternates(conversation_history) /\ (call.op = "get_chat_stats" => StatsAgree))
  /\ [][FailingChat => conversation_history' = conversation_history]_vars

\* get_chat_stats has answered on a history of ten entries that holds a
\* greeting, a store question and, as its last exchange, a product request
C27_Witness ==
  /\ call.op = "get_chat_stats"
  /\ Len(conversation_history) = 10
  /\ ret.value.last_products_found = 1
  /\ conversation_history[1].content.text = <<"h", "o", "l", "a">>
  /\ conversation_history[3].content.text = <<"q", "u", "e", " ", "t", "i", "e", "n", "d", "a", "s", " ", "t", "i", "e", "n", "e", "s">>

-----------------------------------------------------------------------------
(* Claims on the views *)

\* the chatbots constructed for a session
ChatbotsOf(session_id) ==
  {b \in 1..Len(chatbots) : chatbots[b].session_id = session_id}

\* the requests of a session that have obtained the chatbot they use
Holding(session_id) ==
  {r \in 1..Len(requests) :
     /\ requests[r].session_id = session_id
     /\ requests[r].pc \in {"chat", "slice", "assign", "done", "cleared"}}

\* a chat request that has returned finds its entries in the history of the
\* chatbot of its session, unless the session was asked to clear
NothingLost ==
  \A r \in 1..Len(requests) :
    (/\ requests[r].view = "chatWithChatbotWithoutLogin"
     /\ requests[r].pc = "done"
     /\ \A q \in 1..Len(requests) :
          requests[q].session_id = requests[r].session_id => requests[q].view # "clearChatHistory")
    => \E h \in {chatbots[_chatbot_instances[requests[r].session_id]].conversation_history} :
         \E i \in 1..Len(h) : h[i] = UserEntry(r, 0)

\* the step clears a session and leaves the chatbots of the other sessions alone
ClearKeepsOthers ==
  \A r \in 1..Len(requests) :
    (requests[r].pc = "clear" /\ requests'[r].pc = "cleared") =>
      \A b \in 1..Len(chatbots) :
        chatbots[b].session_id # requests[r].session_id => chatbots'[b] = chatbots[b]

\* C28: under any interleaving of concurrent requests carrying the same
\* session_id, get_chatbot_for_session creates at most one TechChatbot for
\* that id and every request of the session uses that same instance, so that
\* no appended history entry is lost; clearing one session's history leaves
\* every other session's history unchanged.
C28_OneChatbotPerSession ==
  /\ [](\A s \in Sessions :
          /\ Cardinality(ChatbotsOf(s)) <= 1
          /\ \A r, q \in Holding(s) : requests[r].chatbot = requests[q].chatbot)
  /\ []NothingLost
  /\ [][ClearKeepsOthers]_vars

=============================================================================
